---- MODULE Spec2Model ----
(***************************************************************************)
(* Manual rate engine (src/src/rates/rates.module.ts, lines 12-1076):      *)
(* ManualRateEngineService.estimate with its distance cache, the distance  *)
(* resolution chain and the pricing pipeline.                              *)
(*                                                                         *)
(* Numbers.  JavaScript numbers are modelled as exact non-negative         *)
(* decimals m / 10^e; m is a natural number held as a little-endian        *)
(* sequence of base-10000 limbs because amounts in NGN with their          *)
(* fractional digits do not fit 32 bits.  Math.round(n * 100) / 100 is     *)
(* round-half-up on the exact value.  Reported money is an integer number  *)
(* of kobo (1/100 NGN), distances in the state are integer metres,        *)
(* weights integer grams.                                                  *)
(***************************************************************************)
EXTENDS Integers, Sequences, FiniteSets, TLC

\* ------------------------------------------------------------------------
\* Exact arithmetic
\* ------------------------------------------------------------------------
Limb == 100 * 100

RECURSIVE BigFromInt(_)
BigFromInt(n) == IF n = 0 THEN << >> ELSE <<n % Limb>> \o BigFromInt(n \div Limb)

RECURSIVE BigToInt(_)
BigToInt(b) == IF b = << >> THEN 0 ELSE Head(b) + Limb * BigToInt(Tail(b))

RECURSIVE BigNorm(_)
BigNorm(b) ==
  IF b = << >> THEN << >>
  ELSE IF b[Len(b)] = 0 THEN BigNorm(SubSeq(b, 1, Len(b) - 1)) ELSE b

RECURSIVE BigAddC(_, _, _)
BigAddC(a, b, c) ==
  IF a = << >> /\ b = << >> THEN (IF c = 0 THEN << >> ELSE <<c>>)
  ELSE LET x == IF a = << >> THEN 0 ELSE Head(a)
           y == IF b = << >> THEN 0 ELSE Head(b)
           s == x + y + c
       IN  <<s % Limb>> \o BigAddC(IF a = << >> THEN a ELSE Tail(a),
                                   IF b = << >> THEN b ELSE Tail(b),
                                   s \div Limb)

BigAdd(a, b) == BigAddC(a, b, 0)

\* a * s + c for a small factor s (s <= 100000)
RECURSIVE BigMulSmallC(_, _, _)
BigMulSmallC(a, s, c) ==
  IF a = << >> THEN BigFromInt(c)
  ELSE LET p == Head(a) * s + c
       IN  <<p % Limb>> \o BigMulSmallC(Tail(a), s, p \div Limb)

BigMulSmall(a, s) == BigNorm(BigMulSmallC(a, s, 0))

RECURSIVE BigMul(_, _)
BigMul(a, b) ==
  IF a = << >> \/ b = << >> THEN << >>
  ELSE LET rest == BigMul(a, Tail(b))
       IN  BigNorm(BigAdd(BigMulSmallC(a, Head(b), 0),
                          IF rest = << >> THEN << >> ELSE <<0>> \o rest))

\* quotient of a by a small divisor s (s <= 100000), limbs taken from the top
RECURSIVE BigDivSmallR(_, _, _)
BigDivSmallR(a, s, r) ==
  IF a = << >> THEN << >>
  ELSE LET n   == Len(a)
           cur == r * Limb + a[n]
       IN  BigDivSmallR(SubSeq(a, 1, n - 1), s, cur % s) \o <<cur \div s>>

BigDivSmall(a, s) == BigNorm(BigDivSmallR(a, s, 0))

RECURSIVE BigLess(_, _)
BigLess(a, b) ==
  IF Len(a) # Len(b) THEN Len(a) < Len(b)
  ELSE IF a = << >> THEN FALSE
  ELSE LET n == Len(a)
       IN  IF a[n] # b[n] THEN a[n] < b[n]
           ELSE BigLess(SubSeq(a, 1, n - 1), SubSeq(b, 1, n - 1))

RECURSIVE BigShift10(_, _)
BigShift10(a, k) ==
  IF k = 0 THEN a
  ELSE IF k >= 4 THEN BigShift10(IF a = << >> THEN a ELSE <<0>> \o a, k - 4)
  ELSE BigShift10(BigMulSmall(a, 10), k - 1)

RECURSIVE BigDrop10(_, _)
BigDrop10(a, k) ==
  IF k = 0 THEN a
  ELSE IF k >= 4 THEN BigDrop10(IF a = << >> THEN a ELSE Tail(a), k - 4)
  ELSE BigDrop10(BigDivSmall(a, 10), k - 1)

\* the decimal n / 10^e for an integer n >= 0
Dec(n, e) == [m |-> BigFromInt(n), e |-> e]

DecMul(a, b) == [m |-> BigMul(a.m, b.m), e |-> a.e + b.e]

DecAt(a, e) == BigShift10(a.m, e - a.e)

MaxE(a, b) == IF a.e >= b.e THEN a.e ELSE b.e

DecAdd(a, b) == [m |-> BigAdd(DecAt(a, MaxE(a, b)), DecAt(b, MaxE(a, b))),
                 e |-> MaxE(a, b)]

DecLess(a, b) == BigLess(DecAt(a, MaxE(a, b)), DecAt(b, MaxE(a, b)))

DecEq(a, b) == DecAt(a, MaxE(a, b)) = DecAt(b, MaxE(a, b))

DecMax(a, b) == IF DecLess(a, b) THEN b ELSE a

\* a / s for a small divisor s that divides the numerator exactly
DecDivSmall(a, s) == [m |-> BigDivSmall(a.m, s), e |-> a.e]

\* Math.round(n * 100) / 100 in hundredths: round half up on the exact value
Round2(a) ==
  IF a.e <= 2 THEN BigToInt(BigShift10(a.m, 2 - a.e))
  ELSE BigToInt(BigDrop10(BigAdd(a.m, BigShift10(BigFromInt(5), a.e - 3)), a.e - 2))

\* n / d as an exact decimal (d divides n * 10^6 for every input of the model)
DecQuot(n, d) == [m |-> BigDivSmall(BigShift10(BigFromInt(n), 6), d), e |-> 6]

\* ------------------------------------------------------------------------
\* JavaScript values
\* ------------------------------------------------------------------------
Undef == "<undefined>"      \* an absent string or enum field
NoNum == 0 - 1              \* an absent number; Number(undefined) is NaN

\* x ?? y
Coalesce(x, y) == IF x = Undef THEN y ELSE x

\* Number.isFinite(n) && n > 0 for a number held in thousandths
FinitePositive(n) == n # NoNum /\ n > 0

\* String.prototype.toLowerCase on the strings of the model
ToLowerCase(s) ==
  CASE s = "Lagos"   -> "lagos"
    [] s = " LAGOS " -> " lagos "
    [] s = "LAGOS"   -> "lagos"
    [] s = "Kano"    -> "kano"
    [] s = "Ikeja"   -> "ikeja"
    [] s = "Ogun"    -> "ogun"
    [] s = "China"   -> "china"
    [] s = "London"  -> "london"
    [] s = "Lagos Island" -> "lagos island"
    [] s = "Abuja"   -> "abuja"
    [] s = "Garki Abuja" -> "garki abuja"
    [] s = "Kano City" -> "kano city"
    [] s = "PH"      -> "ph"
    [] s = "Portharcourt" -> "portharcourt"
    [] s = "Abeokuta" -> "abeokuta"
    [] s = "Sokoto"  -> "sokoto"
    [] OTHER         -> s

\* String.prototype.trim on the strings of the model
Trim(s) ==
  CASE s = " LAGOS " -> "LAGOS"
    [] s = " lagos " -> "lagos"
    [] s = " "       -> ""
    [] OTHER         -> s

\* the words (maximal \w runs) of a lower-cased string: /\bw\b/.test(v) is w \in Words(v)
Words(v) ==
  CASE v = "lagos"   -> {"lagos"}
    [] v = " lagos " -> {"lagos"}
    [] v = "kano"    -> {"kano"}
    [] v = "ikeja"   -> {"ikeja"}
    [] v = "ogun"    -> {"ogun"}
    [] v = "china"   -> {"china"}
    [] v = "london"  -> {"london"}
    [] v = "lagos island" -> {"lagos", "island"}
    [] v = "abuja"   -> {"abuja"}
    [] v = "garki abuja" -> {"garki", "abuja"}
    [] v = "kano city" -> {"kano", "city"}
    [] v = "ph"      -> {"ph"}
    [] v = "portharcourt" -> {"portharcourt"}
    [] v = "abeokuta" -> {"abeokuta"}
    [] v = "sokoto"  -> {"sokoto"}
    [] v = "ibadan"  -> {"ibadan"}
    [] v = "benin"   -> {"benin"}
    [] v = "benin city" -> {"benin", "city"}
    [] v = "warri"   -> {"warri"}
    [] v = "enugu"   -> {"enugu"}
    [] v = "owerri"  -> {"owerri"}
    [] v = "calabar" -> {"calabar"}
    [] v = "kaduna"  -> {"kaduna"}
    [] v = "jos"     -> {"jos"}
    [] v = "maiduguri" -> {"maiduguri"}
    [] OTHER         -> {}

\* ------------------------------------------------------------------------
\* Region / lane classifiers
\* ------------------------------------------------------------------------
resolveNigeriaCity(raw) ==
  LET w == Words(Trim(ToLowerCase(raw)))
  IN  CASE "lagos" \in w -> "lagos"
        [] "abuja" \in w -> "abuja"
        [] "kano" \in w -> "kano"
        [] w \cap {"portharcourt", "ph"} # {} -> "ph"
        [] w \cap {"abeokuta", "ogun"} # {} -> "abeokuta"
        [] "ibadan" \in w -> "ibadan"
        [] "benin" \in w -> "benin"
        [] "warri" \in w -> "warri"
        [] "enugu" \in w -> "enugu"
        [] "owerri" \in w -> "owerri"
        [] "calabar" \in w -> "calabar"
        [] "kaduna" \in w -> "kaduna"
        [] "jos" \in w -> "jos"
        [] "maiduguri" \in w -> "maiduguri"
        [] "sokoto" \in w -> "sokoto"
        [] OTHER -> ""

NigeriaWords ==
  {"nigeria", "lagos", "abuja", "kano", "ogun", "abeokuta", "portharcourt", "ph",
   "apapa", "ibadan", "warri", "enugu", "owerri", "calabar", "kaduna", "jos",
   "maiduguri", "sokoto", "zaria", "ilorin", "akure"}

isNigeria(value) ==
  LET v == ToLowerCase(IF value = Undef THEN "" ELSE value)
  IN  v # "" /\ (Words(v) \cap NigeriaWords # {} \/ {"benin", "city"} \subseteq Words(v))

detectRegion(value) ==
  LET v == ToLowerCase(IF value = Undef THEN "" ELSE value)
      w == Words(v)
  IN  CASE v = "" -> "unknown"
        [] isNigeria(v) -> "nigeria"
        [] w \cap {"africa", "ghana", "kenya", "accra", "nairobi"} # {} -> "africa"
        [] w \cap {"china", "shanghai", "singapore", "asia", "india"} # {} -> "asia"
        [] w \cap {"uae", "dubai", "saudi", "qatar", "doha"} # {} -> "middleeast"
        [] w \cap {"europe", "uk", "london", "germany", "paris"} # {} -> "europe"
        [] w \cap {"usa", "america", "canada", "toronto", "mexico"} # {} -> "usa"
        [] OTHER -> "unknown"

\* ------------------------------------------------------------------------
\* Free-text extraction.  A text is modelled by its lower-cased token
\* sequence (String(freeText).toLowerCase() split at white space).
\* ------------------------------------------------------------------------
Tokens(text) ==
  CASE text = "Need a quote: 10kg from China to Lagos by air" ->
         <<"need", "a", "quote", "10kg", "from", "china", "to", "lagos", "by", "air">>
    [] text = "Ocean shipment from China to Lagos" ->
         <<"ocean", "shipment", "from", "china", "to", "lagos">>
    [] text = "Truck from Lagos to Kano 1000km" ->
         <<"truck", "from", "lagos", "to", "kano", "1000km">>
    [] text = "Truck from Lagos to Ogun 42kg" ->
         <<"truck", "from", "lagos", "to", "ogun", "42kg">>
    [] text = "Express air freight from Lagos to Lagos 5kg" ->
         <<"express", "air", "freight", "from", "lagos", "to", "lagos", "5kg">>
    [] text = "20ft container from Lagos to Lagos" ->
         <<"20ft", "container", "from", "lagos", "to", "lagos">>
    [] text = "Quote from China to Lagos 10kg" ->
         <<"quote", "from", "china", "to", "lagos", "10kg">>
    [] text = "Container truck from Lagos to Kano 1000km" ->
         <<"container", "truck", "from", "lagos", "to", "kano", "1000km">>
    [] OTHER -> << >>

\* /\b(\d+(?:\.\d+)?)\s*kg\b/ : the number of a kg token, in grams
KgOf(tok) ==
  CASE tok = "10kg" -> 10000 [] tok = "42kg" -> 42000 [] tok = "5kg" -> 5000
    [] OTHER -> NoNum

\* /\b(\d+(?:\.\d+)?)\s*km\b/ : the number of a km token, in metres
KmOf(tok) ==
  CASE tok = "1000km" -> 1000000 [] OTHER -> NoNum

SeqRange(q) == {q[i] : i \in 1..Len(q)}

\* the first position at or after from of a token of the set S, 0 when none
FirstIndex(q, S, from) ==
  LET hits == {i \in from..Len(q) : q[i] \in S}
  IN  IF hits = {} THEN 0 ELSE CHOOSE i \in hits : \A j \in hits : i <= j

\* the categories tested in the order air, parcel, ocean, ground
detectModeAirFirst(text) ==
  LET t == SeqRange(Tokens(text))
  IN  CASE t \cap {"air", "iata", "airport"} # {} -> "air"
        [] t \cap {"dhl", "fedex", "ups", "parcel", "express"} # {} -> "parcel"
        [] t \cap {"ocean", "sea", "container", "fcl", "lcl", "ship", "vessel", "port"} # {}
             -> "ocean"
        [] t \cap {"truck", "trucking", "ground", "ltl", "road", "interstate", "intrastate"}
             # {} -> "ground"
        [] OTHER -> Undef

detectMode(text) ==
  LET t == SeqRange(Tokens(text))
  IN  CASE t \cap {"dhl", "fedex", "ups", "parcel", "express"} # {} -> "parcel"
        [] t \cap {"air", "iata", "airport"} # {} -> "air"
        [] t \cap {"ocean", "sea", "container", "fcl", "lcl", "ship", "vessel", "port"} # {}
             -> "ocean"
        [] t \cap {"truck", "trucking", "ground", "ltl", "road", "interstate", "intrastate"}
             # {} -> "ground"
        [] OTHER -> Undef

IsFrom(tok) == tok = "from"
IsTo(tok) == tok = "to"
IsKg(tok) == KgOf(tok) # NoNum
IsKm(tok) == KmOf(tok) # NoNum
\* what ends the destination capture: a quantity token, by, via
IsStop(tok) == IsKg(tok) \/ IsKm(tok) \/ tok \in {"by", "via"}

\* the places of the model's texts are single tokens
cleanPlace(q) == IF Len(q) = 1 THEN q[1] ELSE ""

extractFromText(freeText) ==
  LET q     == Tokens(freeText)
      f     == FirstIndex(q, {x \in SeqRange(q) : IsFrom(x)}, 1)
      t     == IF f = 0 THEN 0 ELSE FirstIndex(q, {x \in SeqRange(q) : IsTo(x)}, f + 2)
      stop  == IF t = 0 THEN 0 ELSE FirstIndex(q, {x \in SeqRange(q) : IsStop(x)}, t + 2)
      last  == IF stop = 0 THEN Len(q) ELSE stop - 1
      found == t # 0 /\ t + 1 <= Len(q)
      kg    == FirstIndex(q, {x \in SeqRange(q) : IsKg(x)}, 1)
      km    == FirstIndex(q, {x \in SeqRange(q) : IsKm(x)}, 1)
      t20   == "20ft" \in SeqRange(q)
      t40hc == "40hc" \in SeqRange(q)
      t40   == "40ft" \in SeqRange(q)
  IN  [ mode          |-> detectMode(freeText),
        origin        |-> IF found THEN cleanPlace(SubSeq(q, f + 1, t - 1)) ELSE Undef,
        destination   |-> IF found THEN cleanPlace(SubSeq(q, t + 1, last)) ELSE Undef,
        weightKg      |-> IF kg = 0 THEN NoNum ELSE KgOf(q[kg]),
        distanceKm    |-> IF km = 0 THEN NoNum ELSE KmOf(q[km]),
        containerType |-> IF t40hc THEN "40hc" ELSE IF t40 THEN "40ft"
                          ELSE IF t20 THEN "20ft" ELSE Undef,
        isExpress     |-> SeqRange(q) \cap {"express", "dhl", "fedex", "ups"} # {} ]

NoText ==
  [ mode |-> Undef, origin |-> Undef, destination |-> Undef, weightKg |-> NoNum,
    distanceKm |-> NoNum, containerType |-> Undef, isExpress |-> FALSE ]

\* ------------------------------------------------------------------------
\* Requests (ManualQuoteRequestDto) and the merge at the head of estimate
\* ------------------------------------------------------------------------
NoLatLng == [ok |-> FALSE, lat |-> 0, lng |-> 0]
LatLng(lat, lng) == [ok |-> TRUE, lat |-> lat, lng |-> lng]   \* 1/10000 degree
NoDims == << >>

\* the merge with the spread order reversed: { ...dto, ...fromFreeText }
MergeFreeTextFirst(dto) ==
  LET fromFreeText == IF dto.freeText \in {Undef, ""} THEN NoText
                      ELSE extractFromText(dto.freeText)
      pick(a, b)    == IF a = Undef THEN b ELSE a
      pickNum(a, b) == IF a = NoNum THEN b ELSE a
      o == Trim(Coalesce(dto.origin, Coalesce(fromFreeText.origin, "")))
      d == Trim(Coalesce(dto.destination, Coalesce(fromFreeText.destination, "")))
      f == Trim(Coalesce(dto.freeText, ""))
  IN  [ freeText      |-> IF f = "" THEN Undef ELSE f,
        mode          |-> pick(fromFreeText.mode, dto.mode),
        origin        |-> IF o = "" THEN Undef ELSE o,
        destination   |-> IF d = "" THEN Undef ELSE d,
        weightKg      |-> pickNum(fromFreeText.weightKg, dto.weightKg),
        dimensionsCm  |-> dto.dimensionsCm,
        volumeCbm     |-> dto.volumeCbm,
        containerType |-> pick(fromFreeText.containerType, dto.containerType),
        distanceKm    |-> pickNum(fromFreeText.distanceKm, dto.distanceKm),
        start         |-> dto.start,
        end           |-> dto.end,
        isExpress     |-> fromFreeText.isExpress \/ dto.isExpress = "true",
        detentionDemurrageDays |-> dto.detentionDemurrageDays ]

\* estimate, lines 182-194: explicit fields first, then the extracted ones
MergeRequest(dto) ==
  LET fromFreeText == IF dto.freeText \in {Undef, ""} THEN NoText
                      ELSE extractFromText(dto.freeText)
      pick(a, b)    == IF a = Undef THEN b ELSE a
      pickNum(a, b) == IF a = NoNum THEN b ELSE a
      o == Trim(Coalesce(dto.origin, Coalesce(fromFreeText.origin, "")))
      d == Trim(Coalesce(dto.destination, Coalesce(fromFreeText.destination, "")))
      f == Trim(Coalesce(dto.freeText, ""))
  IN  [ freeText      |-> IF f = "" THEN Undef ELSE f,
        mode          |-> pick(dto.mode, fromFreeText.mode),
        origin        |-> IF o = "" THEN Undef ELSE o,
        destination   |-> IF d = "" THEN Undef ELSE d,
        weightKg      |-> pickNum(dto.weightKg, fromFreeText.weightKg),
        dimensionsCm  |-> dto.dimensionsCm,
        volumeCbm     |-> dto.volumeCbm,
        containerType |-> pick(dto.containerType, fromFreeText.containerType),
        distanceKm    |-> pickNum(dto.distanceKm, fromFreeText.distanceKm),
        start         |-> dto.start,
        end           |-> dto.end,
        isExpress     |-> IF dto.isExpress = Undef THEN fromFreeText.isExpress
                          ELSE dto.isExpress = "true",
        detentionDemurrageDays |-> dto.detentionDemurrageDays ]

\* estimate, lines 198-199
EffectiveMode(req) ==
  IF req.mode # Undef THEN req.mode
  ELSE detectMode(IF req.freeText = Undef THEN "" ELSE req.freeText)

\* the comparison without toLowerCase
SameLocationExact(req) ==
  /\ req.origin # Undef
  /\ req.destination # Undef
  /\ Trim(req.origin) = Trim(req.destination)

\* estimate, lines 206-210
SameLocation(req) ==
  /\ req.origin # Undef
  /\ req.destination # Undef
  /\ Trim(ToLowerCase(req.origin)) = Trim(ToLowerCase(req.destination))

\* the checks of lines 196-225 without the ocean one
MissingNoContainer(req, mode) ==
     (IF mode = Undef THEN <<"mode">> ELSE << >>)
  \o (IF req.origin = Undef THEN <<"origin">> ELSE << >>)
  \o (IF req.destination = Undef THEN <<"destination">> ELSE << >>)
  \o (IF mode \in {"parcel", "air"} /\ ~FinitePositive(req.weightKg)
        THEN <<"weightKg">> ELSE << >>)

\* estimate, lines 196-225: the fields found missing before distance resolution
MissingBeforeDistance(req, mode) ==
     (IF mode = Undef THEN <<"mode">> ELSE << >>)
  \o (IF req.origin = Undef THEN <<"origin">> ELSE << >>)
  \o (IF req.destination = Undef THEN <<"destination">> ELSE << >>)
  \o (IF mode \in {"parcel", "air"} /\ ~FinitePositive(req.weightKg)
        THEN <<"weightKg">> ELSE << >>)
  \o (IF mode = "ocean" /\ req.containerType = Undef
        THEN <<"containerType">> ELSE << >>)

\* Array.from(new Set(missing)): first occurrences, in order
RECURSIVE Dedup(_)
Dedup(q) ==
  IF q = << >> THEN << >>
  ELSE LET init == Dedup(SubSeq(q, 1, Len(q) - 1))
       IN  IF q[Len(q)] \in SeqRange(init) THEN init ELSE Append(init, q[Len(q)])

distanceCacheKey(origin, destination) ==
  << ToLowerCase(Trim(IF origin = Undef THEN "" ELSE origin)),
     ToLowerCase(Trim(IF destination = Undef THEN "" ELSE destination)) >>

\* ------------------------------------------------------------------------
\* Pricing tables
\* ------------------------------------------------------------------------
NIGERIA_PARCEL_LANES ==
  [k \in { <<"abuja", "abuja">>, <<"kano", "kano">>, <<"lagos", "lagos">>, <<"ph", "ph">>,
           <<"portharcourt", "portharcourt">>, <<"abuja", "lagos">>, <<"lagos", "ogun">>,
           <<"abeokuta", "lagos">>, <<"ibadan", "lagos">>, <<"lagos", "ph">>,
           <<"lagos", "portharcourt">>, <<"lagos", "kano">>, <<"benin", "lagos">>,
           <<"lagos", "warri">>, <<"enugu", "lagos">>, <<"lagos", "owerri">>,
           <<"lagos", "calabar">>, <<"abuja", "kano">>, <<"abuja", "ph">>,
           <<"abuja", "portharcourt">>, <<"abuja", "enugu">>, <<"abuja", "kaduna">>,
           <<"abuja", "jos">>, <<"abuja", "owerri">>, <<"benin", "ph">>,
           <<"benin", "portharcourt">>, <<"enugu", "ph">>, <<"enugu", "portharcourt">>,
           <<"ph", "warri">>, <<"portharcourt", "warri">>, <<"calabar", "ph">>,
           <<"calabar", "portharcourt">>, <<"kaduna", "kano">>, <<"jos", "kano">>,
           <<"kano", "maiduguri">>, <<"kano", "sokoto">> } |->
     CASE k = <<"abuja", "abuja">> -> 2500 [] k = <<"kano", "kano">> -> 2500
       [] k = <<"lagos", "lagos">> -> 3500 [] k = <<"ph", "ph">> -> 2800
       [] k = <<"portharcourt", "portharcourt">> -> 2800
       [] k = <<"abuja", "lagos">> -> 5750 [] k = <<"lagos", "ogun">> -> 3800
       [] k = <<"abeokuta", "lagos">> -> 3800 [] k = <<"ibadan", "lagos">> -> 4000
       [] k = <<"lagos", "ph">> -> 9500 [] k = <<"lagos", "portharcourt">> -> 9500
       [] k = <<"lagos", "kano">> -> 12000 [] k = <<"benin", "lagos">> -> 7500
       [] k = <<"lagos", "warri">> -> 9000 [] k = <<"enugu", "lagos">> -> 11000
       [] k = <<"lagos", "owerri">> -> 10500 [] k = <<"lagos", "calabar">> -> 13000
       [] k = <<"abuja", "kano">> -> 6500 [] k = <<"abuja", "ph">> -> 10500
       [] k = <<"abuja", "portharcourt">> -> 10500 [] k = <<"abuja", "enugu">> -> 8500
       [] k = <<"abuja", "kaduna">> -> 5500 [] k = <<"abuja", "jos">> -> 6000
       [] k = <<"abuja", "owerri">> -> 9500 [] k = <<"benin", "ph">> -> 7000
       [] k = <<"benin", "portharcourt">> -> 7000 [] k = <<"enugu", "ph">> -> 7500
       [] k = <<"enugu", "portharcourt">> -> 7500 [] k = <<"ph", "warri">> -> 6500
       [] k = <<"portharcourt", "warri">> -> 6500 [] k = <<"calabar", "ph">> -> 8000
       [] k = <<"calabar", "portharcourt">> -> 8000 [] k = <<"kaduna", "kano">> -> 4000
       [] k = <<"jos", "kano">> -> 5500 [] k = <<"kano", "maiduguri">> -> 9000
       [] k = <<"kano", "sokoto">> -> 7500 ]

\* the lookup without the reversed key
nigeriaLaneBaseNgnOneWay(originCity, destCity) ==
  LET key1 == <<originCity, destCity>>
  IN  IF key1 \in DOMAIN NIGERIA_PARCEL_LANES THEN NIGERIA_PARCEL_LANES[key1] ELSE NoNum

\* NoNum stands for null
nigeriaLaneBaseNgn(originCity, destCity) ==
  LET key1 == <<originCity, destCity>>
      key2 == <<destCity, originCity>>
  IN  IF key1 \in DOMAIN NIGERIA_PARCEL_LANES THEN NIGERIA_PARCEL_LANES[key1]
      ELSE IF key2 \in DOMAIN NIGERIA_PARCEL_LANES THEN NIGERIA_PARCEL_LANES[key2]
      ELSE NoNum

OCEAN_BASE_USD(region, containerType) ==
  LET row == CASE region = "europe"     -> <<1500, 2300, 2500>>
               [] region = "usa"        -> <<2500, 4000, 4300>>
               [] region = "asia"       -> <<2000, 3200, 3500>>
               [] region = "middleeast" -> <<1800, 2900, 3100>>
               [] region = "africa"     -> <<1200, 1900, 2100>>
               [] region = "nigeria"    -> <<900, 1400, 1550>>
               [] OTHER                 -> <<2150, 3300, 3600>>
  IN  CASE containerType = "20ft" -> row[1]
        [] containerType = "40ft" -> row[2]
        [] containerType = "40hc" -> row[3]

\* USD per chargeable kg, as decimals
AIR_RATE_USD_PER_KG(region, isExpress) ==
  LET row == CASE region = "europe"     -> <<Dec(475, 2), Dec(85, 1)>>
               [] region = "usa"        -> <<Dec(65, 1), Dec(115, 1)>>
               [] region = "asia"       -> <<Dec(525, 2), Dec(95, 1)>>
               [] region = "middleeast" -> <<Dec(45, 1), Dec(80, 1)>>
               [] region = "africa"     -> <<Dec(375, 2), Dec(70, 1)>>
               [] region = "nigeria"    -> <<Dec(35, 1), Dec(65, 1)>>
               [] OTHER                 -> <<Dec(575, 2), Dec(100, 1)>>
  IN  IF isExpress THEN row[2] ELSE row[1]

\* envNumber defaults (no override is set in the modelled deployment)
volumeDivisorParcel == 5000
volumeDivisorAir == 6000
fxUsdToNgn == 1550
inflation2026 == Dec(103, 2)
marketMultiplierByMode(mode) ==
  CASE mode = "parcel" -> Dec(106, 2)
    [] mode = "ocean"  -> Dec(88, 2)
    [] mode = "air"    -> Dec(103, 2)
    [] mode = "ground" -> Dec(102, 2)
multiplier(mode) == DecMul(inflation2026, marketMultiplierByMode(mode))
marginPctByMode(mode) ==
  CASE mode = "parcel" -> Dec(275, 3)
    [] mode = "ocean"  -> Dec(2, 1)
    [] mode = "air"    -> Dec(25, 2)
    [] mode = "ground" -> Dec(4, 1)
\* a lower floor than the default
minChargeableLow == 45 - 5
minChargeable == 45

\* ------------------------------------------------------------------------
\* Rate calculator
\* ------------------------------------------------------------------------
Grams(n) == Dec(n, 3)      \* a weight in kg
Metres(n) == Dec(n, 3)     \* a distance in km
Whole(n) == Dec(n, 0)

\* [nan |-> TRUE] stands for NaN
calculateVolumetricKg(req, divisor) ==
  IF req.volumeCbm # NoNum /\ req.volumeCbm # 0
    THEN [nan |-> FALSE, kg |-> DecQuot(req.volumeCbm * 1000, divisor)]
  ELSE IF req.dimensionsCm = NoDims THEN [nan |-> TRUE, kg |-> Whole(0)]
  ELSE LET d == req.dimensionsCm
       IN  IF \E i \in 1..3 : d[i] <= 0 THEN [nan |-> TRUE, kg |-> Whole(0)]
           ELSE [nan |-> FALSE, kg |-> DecQuot(d[1] * d[2] * d[3], divisor)]

\* Math.max(weightKg, Number.isFinite(vol) ? vol : 0)
ChargeableKg(req, divisor) ==
  LET vol == calculateVolumetricKg(req, divisor)
  IN  DecMax(Grams(req.weightKg), IF vol.nan THEN Whole(0) ELSE vol.kg)

VolumetricUsed(req, divisor) ==
  LET vol == calculateVolumetricKg(req, divisor)
  IN  ~vol.nan /\ DecLess(Grams(req.weightKg), vol.kg)

\* calculate, lines 327-384: amounts in NGN before the multiplier
ParcelDomestic(req) ==
  LET oCity    == resolveNigeriaCity(req.origin)
      dCity    == resolveNigeriaCity(req.destination)
      laneRate == nigeriaLaneBaseNgn(oCity, dCity)
      lane     == IF laneRate # NoNum THEN laneRate ELSE 15000
      kg       == ChargeableKg(req, volumeDivisorParcel)
      wtFactor == IF DecLess(Whole(30), kg) THEN Dec(35, 1)
                  ELSE IF DecLess(Whole(20), kg) THEN Dec(28, 1)
                  ELSE IF DecLess(Whole(10), kg) THEN Dec(20, 1)
                  ELSE IF DecLess(Whole(5), kg) THEN Dec(15, 1)
                  ELSE IF DecLess(Whole(1), kg) THEN Dec(12, 1)
                  ELSE Dec(10, 1)
      baseNgn  == DecMul(Whole(lane), wtFactor)
  IN  [ base  |-> baseNgn,
        sur   |-> DecMul(baseNgn, Dec(15, 2)),
        kg    |-> kg,
        lines |-> <<"Domestic Nigeria parcel averages (2026)",
                    IF laneRate # NoNum THEN "Lane"
                    ELSE "Lane: unmapped Nigeria route">>
                  \o (IF VolumetricUsed(req, volumeDivisorParcel)
                        THEN <<"Volumetric weight used">> ELSE << >>)
                  \o <<"Weight factor applied">> ]

\* lines 411-417: the base rate in USD of a chargeable weight
bracketBaseUsd(kg) ==
  IF ~DecLess(Dec(5, 1), kg) THEN 35
  ELSE IF ~DecLess(Whole(1), kg) THEN 50
  ELSE IF ~DecLess(Whole(5), kg) THEN 65
  ELSE IF ~DecLess(Whole(10), kg) THEN 115
  ELSE IF ~DecLess(Whole(30), kg) THEN 215
  ELSE 350

\* lines 420-428: regionalAdj[originRegion] ?? 1.0
regionalAdj(originRegion) ==
  CASE originRegion = "usa"        -> Dec(13, 1)
    [] originRegion = "europe"     -> Dec(10, 1)
    [] originRegion = "asia"       -> Dec(11, 1)
    [] originRegion = "middleeast" -> Dec(105, 2)
    [] originRegion = "africa"     -> Dec(9, 1)
    [] originRegion = "nigeria"    -> Dec(8, 1)
    [] OTHER                       -> Dec(10, 1)

\* calculate, lines 386-439
ParcelInternational(req) ==
  LET originRegion == detectRegion(req.origin)
      kg        == ChargeableKg(req, volumeDivisorParcel)
      bracket   == bracketBaseUsd(kg)
      adjFactor == regionalAdj(originRegion)
      baseUsd   == Dec(Round2(DecMul(Whole(bracket), adjFactor)), 2)
      surUsd    == DecMul(baseUsd, Dec(25, 2))
  IN  [ base  |-> DecMul(baseUsd, Whole(fxUsdToNgn)),
        sur   |-> DecMul(surUsd, Whole(fxUsdToNgn)),
        kg    |-> kg,
        lines |-> <<"International express parcel averages (2026)",
                    "Origin region | Destination region">>
                  \o (IF VolumetricUsed(req, volumeDivisorParcel)
                        THEN <<"Volumetric weight used">> ELSE << >>)
                  \o <<"Rate bracket base">> ]

\* calculate, lines 443-495
Ocean(req) ==
  LET containerType == IF req.containerType = Undef THEN "40ft" ELSE req.containerType
      table       == OCEAN_BASE_USD(detectRegion(req.origin), containerType)
      isToNigeria == isNigeria(req.destination)
      baseUsd     == IF isToNigeria THEN Whole(table)
                     ELSE Dec(Round2(DecMul(Whole(table), Dec(115, 2))), 2)
      bafCaf      == Dec(Round2(DecMul(baseUsd, Dec(75, 3))), 2)
      ddDays      == IF req.detentionDemurrageDays = NoNum THEN 0
                     ELSE req.detentionDemurrageDays
      dd          == IF ddDays > 0 THEN ddDays * 200 ELSE 0
      surUsd      == DecAdd(Whole(400 + 100), DecAdd(bafCaf, Whole(dd)))
  IN  [ base  |-> DecMul(baseUsd, Whole(fxUsdToNgn)),
        sur   |-> DecMul(surUsd, Whole(fxUsdToNgn)),
        kg    |-> Whole(0),
        lines |-> <<"Ocean container averages (2026), includes basic surcharges",
                    "Origin region | Destination region | Container">>
                  \o (IF isToNigeria THEN << >>
                      ELSE <<"Non-Nigeria destination: +15% applied">>)
                  \o (IF ddDays > 0 THEN <<"Includes detention/demurrage">> ELSE << >>)
                  \o <<"Container">> ]

\* calculate, lines 498-547
Air(req) ==
  LET vol      == calculateVolumetricKg(req, volumeDivisorAir)
      raw      == ChargeableKg(req, volumeDivisorAir)
      floored  == DecLess(raw, Whole(minChargeable))
      kg       == IF floored THEN Whole(minChargeable) ELSE raw
      rate     == AIR_RATE_USD_PER_KG(detectRegion(req.origin), req.isExpress)
      baseUsd  == DecMul(kg, rate)
      surUsd   == DecMul(baseUsd, Dec(15, 2))
  IN  [ base  |-> DecMul(baseUsd, Whole(fxUsdToNgn)),
        sur   |-> DecMul(surUsd, Whole(fxUsdToNgn)),
        kg    |-> kg,
        lines |-> <<"Air freight averages (2026) using chargeable weight",
                    "Origin region | Destination region">>
                  \o (IF vol.nan THEN << >> ELSE <<"Volumetric divisor">>)
                  \o (IF floored THEN <<"Minimum chargeable weight applied">> ELSE << >>)
                  \o <<"Rate used">> ]

\* the distance tiers applied to every ground request
GroundAlwaysTiered(req) ==
  LET km    == Metres(req.distanceKm)
      perKm == IF ~DecLess(Whole(100), km) THEN 350
               ELSE IF ~DecLess(Whole(300), km) THEN 300
               ELSE IF ~DecLess(Whole(600), km) THEN 260
               ELSE 230
      baseNgn == DecMul(km, Whole(perKm))
  IN  [ base  |-> baseNgn,
        sur   |-> DecMul(baseNgn, Dec(1, 1)),
        kg    |-> Whole(0),
        lines |-> <<"Nigeria inter-city trucking",
                    "Nigeria domestic trucking averages (2026)", "Distance">> ]

\* lines 560-603 with the second tier ending at 200 km
GroundTierAt200(req) ==
  LET oCity == resolveNigeriaCity(IF req.origin = Undef THEN "" ELSE req.origin)
      dCity == resolveNigeriaCity(IF req.destination = Undef THEN "" ELSE req.destination)
      km    == Metres(req.distanceKm)
      intra == oCity # "" /\ oCity = dCity
      perKm == IF intra
                 THEN CASE oCity = "lagos" -> 350 [] oCity = "abuja" -> 300
                        [] oCity = "kano" -> 280 [] oCity = "ph" -> 300
                        [] OTHER -> 250
               ELSE IF ~DecLess(Whole(100), km) THEN 350
               ELSE IF ~DecLess(Whole(200), km) THEN 300
               ELSE IF ~DecLess(Whole(600), km) THEN 260
               ELSE 230
      baseNgn == DecMul(km, Whole(perKm))
  IN  [ base  |-> baseNgn,
        sur   |-> DecMul(baseNgn, Dec(1, 1)),
        kg    |-> Whole(0),
        lines |-> <<IF intra THEN "Nigeria intra-city trucking"
                    ELSE "Nigeria inter-city trucking",
                    "Nigeria domestic trucking averages (2026)", "Distance">> ]

\* calculate, lines 560-603
Ground(req) ==
  LET oCity == resolveNigeriaCity(IF req.origin = Undef THEN "" ELSE req.origin)
      dCity == resolveNigeriaCity(IF req.destination = Undef THEN "" ELSE req.destination)
      km    == Metres(req.distanceKm)
      intra == oCity # "" /\ oCity = dCity
      perKm == IF intra
                 THEN CASE oCity = "lagos" -> 350 [] oCity = "abuja" -> 300
                        [] oCity = "kano" -> 280 [] oCity = "ph" -> 300
                        [] OTHER -> 250
               ELSE IF ~DecLess(Whole(100), km) THEN 350
               ELSE IF ~DecLess(Whole(300), km) THEN 300
               ELSE IF ~DecLess(Whole(600), km) THEN 260
               ELSE 230
      baseNgn == DecMul(km, Whole(perKm))
  IN  [ base  |-> baseNgn,
        sur   |-> DecMul(baseNgn, Dec(1, 1)),
        kg    |-> Whole(0),
        lines |-> <<IF intra THEN "Nigeria intra-city trucking"
                    ELSE "Nigeria inter-city trucking",
                    "Nigeria domestic trucking averages (2026)", "Distance">> ]

\* margin on base only: a slip the margin formula could have
finalizeBreakdownBaseOnly(mode, base, sur, assumptions) ==
  [ base        |-> Round2(base),
    surcharges  |-> Round2(sur),
    margin      |-> Round2(DecMul(base, marginPctByMode(mode))),
    total       |-> Round2(DecAdd(DecAdd(base, sur), DecMul(base, marginPctByMode(mode)))),
    assumptions |-> assumptions ]

\* total without the margin
finalizeBreakdownNoMargin(mode, base, sur, assumptions) ==
  [ base        |-> Round2(base),
    surcharges  |-> Round2(sur),
    margin      |-> Round2(DecMul(DecAdd(base, sur), marginPctByMode(mode))),
    total       |-> Round2(DecAdd(base, sur)),
    assumptions |-> assumptions ]

\* amounts in kobo (1/100 NGN)
finalizeBreakdown(mode, base, sur, assumptions) ==
  LET subtotal == DecAdd(base, sur)
      margin   == DecMul(subtotal, marginPctByMode(mode))
      total    == DecAdd(subtotal, margin)
  IN  [ base        |-> Round2(base),
        surcharges  |-> Round2(sur),
        margin      |-> Round2(margin),
        total       |-> Round2(total),
        assumptions |-> assumptions ]

\* the per-mode amounts before the multiplier
ModeAmounts(mode, req) ==
  CASE mode = "parcel" -> IF isNigeria(req.origin) /\ isNigeria(req.destination)
                            THEN ParcelDomestic(req) ELSE ParcelInternational(req)
    [] mode = "ocean"  -> Ocean(req)
    [] mode = "air"    -> Air(req)
    [] mode = "ground" -> Ground(req)

NoBreakdown ==
  [base |-> 0, surcharges |-> 0, margin |-> 0, total |-> 0, assumptions |-> << >>]

NoQuote ==
  [ mode |-> Undef, origin |-> Undef, destination |-> Undef,
    chargeableWeightKg |-> NoNum, breakdown |-> NoBreakdown ]

\* chargeableWeightKg in hundredths of a kg
QuoteOf(mode, req, resolutionAssumptions, a) ==
  [ mode        |-> mode,
    origin      |-> req.origin,
    destination |-> req.destination,
    chargeableWeightKg |-> IF mode = "air" THEN Round2(a.kg) ELSE NoNum,
    breakdown   |-> finalizeBreakdown(
                      mode,
                      DecMul(a.base, multiplier(mode)),
                      DecMul(a.sur, multiplier(mode)),
                      resolutionAssumptions \o <<"Estimate only", "FX used">> \o a.lines) ]

calculate(mode, req, resolutionAssumptions) ==
  QuoteOf(mode, req, resolutionAssumptions, ModeAmounts(mode, req))

\* ------------------------------------------------------------------------
\* Geo resolver
\* ------------------------------------------------------------------------
LagosLL == LatLng(65244, 33792)
KanoLL  == LatLng(120022, 85920)
OgunLL  == LatLng(71452, 33619)
AbujaLL == LatLng(90765, 74951)
IkejaLL == LatLng(66018, 33515)    \* what the geocoder answers for "Ikeja"
ZeroLL  == LatLng(0, 0)
PortHarcourtLL == LatLng(48156, 70498)

\* haversineKm (geo.utils.ts) in metres, tabulated for the points of the model
\* (6371 km mean radius, rounded to the metre)
haversineKm(a, b) ==
  LET p == {a, b}
  IN  CASE a = b -> 0
        [] p = {LagosLL, KanoLL}  -> 835467
        [] p = {LagosLL, OgunLL}  -> 69056
        [] p = {LagosLL, IkejaLL} -> 9134
        [] p = {LagosLL, AbujaLL} -> 534878
        [] p = {LagosLL, ZeroLL}  -> 816639
        [] p = {KanoLL, OgunLL}   -> 787602
        [] p = {KanoLL, IkejaLL}  -> 831272
        [] p = {KanoLL, AbujaLL}  -> 346714
        [] p = {KanoLL, ZeroLL}   -> 1637213
        [] p = {OgunLL, IkejaLL}  -> 60434
        [] p = {OgunLL, AbujaLL}  -> 503105
        [] p = {OgunLL, ZeroLL}   -> 877648
        [] p = {IkejaLL, AbujaLL} -> 532939
        [] p = {IkejaLL, ZeroLL}  -> 822892
        [] p = {AbujaLL, ZeroLL}  -> 1306662

resolveNigeriaCoords(value) ==
  LET v == ToLowerCase(IF value = Undef THEN "" ELSE value)
      w == Words(v)
  IN  CASE v = "" -> NoLatLng
        [] "lagos" \in w -> LagosLL
        [] "abuja" \in w -> AbujaLL
        [] "kano" \in w -> KanoLL
        [] w \cap {"ogun", "abeokuta"} # {} -> OgunLL
        [] w \cap {"portharcourt", "ph"} # {} -> PortHarcourtLL
        [] "ibadan" \in w -> LatLng(73775, 39470)
        [] "enugu" \in w -> LatLng(64584, 75464)
        [] "warri" \in w -> LatLng(55167, 57500)
        [] "calabar" \in w -> LatLng(49517, 83220)
        [] "kaduna" \in w -> LatLng(105105, 74165)
        [] "jos" \in w -> LatLng(98965, 88583)
        [] "owerri" \in w -> LatLng(54836, 70333)
        [] "benin" \in w -> LatLng(63350, 56270)
        [] OTHER -> NoLatLng

\* the static lane distances, in metres; NoNum stands for null
inferDistanceKm(origin, destination) ==
  LET o == resolveNigeriaCity(IF origin = Undef THEN "" ELSE origin)
      d == resolveNigeriaCity(IF destination = Undef THEN "" ELSE destination)
      known(k) ==
        CASE k = <<"lagos", "abuja">> -> 760 [] k = <<"lagos", "kano">> -> 1000
          [] k = <<"lagos", "ph">> -> 600 [] k = <<"lagos", "abeokuta">> -> 90
          [] k = <<"lagos", "ibadan">> -> 130 [] k = <<"lagos", "benin">> -> 320
          [] k = <<"lagos", "warri">> -> 430 [] k = <<"lagos", "enugu">> -> 550
          [] k = <<"lagos", "owerri">> -> 510 [] k = <<"lagos", "calabar">> -> 680
          [] k = <<"abuja", "kano">> -> 320 [] k = <<"abuja", "ph">> -> 580
          [] k = <<"abuja", "enugu">> -> 430 [] k = <<"abuja", "kaduna">> -> 190
          [] k = <<"abuja", "jos">> -> 330 [] k = <<"abuja", "owerri">> -> 540
          [] k = <<"ph", "benin">> -> 220 [] k = <<"ph", "enugu">> -> 290
          [] k = <<"ph", "warri">> -> 200 [] k = <<"ph", "calabar">> -> 260
          [] k = <<"kaduna", "kano">> -> 195 [] k = <<"jos", "kano">> -> 280
          [] k = <<"kano", "maiduguri">> -> 650 [] k = <<"kano", "sokoto">> -> 530
          [] OTHER -> NoNum
  IN  IF o = "" \/ d = "" THEN NoNum
      ELSE IF known(<<o, d>>) # NoNum THEN known(<<o, d>>) * 1000
      ELSE IF known(<<d, o>>) # NoNum THEN known(<<d, o>>) * 1000
      ELSE NoNum

\* A JSON value of a provider payload and Number(value)
JsonNum(v)  == [t |-> "num", v |-> v]
JsonNull    == [t |-> "null", v |-> 0]
JsonMissing == [t |-> "missing", v |-> 0]
JsonText    == [t |-> "text", v |-> 0]      \* a non-numeric string
JsNumber(j) ==
  CASE j.t = "num"  -> [nan |-> FALSE, v |-> j.v]
    [] j.t = "null" -> [nan |-> FALSE, v |-> 0]
    [] OTHER        -> [nan |-> TRUE, v |-> 0]

\* What a fetch comes to: a rejected promise (network error, abort at the
\* timeout), a non-2xx status, or a JSON payload with two fields (lat and lon
\* of the first hit; distance in metres and duration in seconds of the first route).
Failure(kind) == [kind |-> kind, a |-> JsonMissing, b |-> JsonMissing]
Payload(a, b) == [kind |-> "json", a |-> a, b |-> b]

NoCoords == [threw |-> FALSE, value |-> NoLatLng]
NoRoute  == [threw |-> FALSE, found |-> FALSE, distanceKm |-> 0, hasDuration |-> FALSE]

\* a provider function without its catch block
ProviderUncaught(out) ==
  [threw |-> out.kind \in {"network", "abort"}, found |-> FALSE, distanceKm |-> 0,
   hasDuration |-> FALSE]

\* lines 911-951
getCoordsLocationIq(out) ==
  IF out.kind # "json" THEN NoCoords
  ELSE LET lat == JsNumber(out.a)
           lng == JsNumber(out.b)
       IN  IF lat.nan \/ lng.nan THEN NoCoords
           ELSE [threw |-> FALSE, value |-> LatLng(lat.v, lng.v)]

\* the body shared by the two routing calls: distance in metres kept as such
RouteOf(out) ==
  IF out.kind # "json" THEN NoRoute
  ELSE LET distMeters == JsNumber(out.a)
           durSeconds == JsNumber(out.b)
       IN  IF distMeters.nan \/ distMeters.v <= 0 THEN NoRoute
           ELSE [threw |-> FALSE, found |-> TRUE, distanceKm |-> distMeters.v,
                 hasDuration |-> ~durSeconds.nan /\ durSeconds.v > 0]

\* lines 953-1005
getDistanceLocationIq(out) == RouteOf(out)

\* lines 1007-1067
getDistanceOpenRoute(out) == RouteOf(out)

\* ------------------------------------------------------------------------
\* State
\* ------------------------------------------------------------------------
VARIABLES
  now,            \* Date.now(), in ms
  env,            \* process.env: which provider keys are set; how providers behave
  distanceCache,  \* the module-level Map, as its set of entries (one per key)
  inv,            \* the estimate invocations, one per slot
  firstResolved,  \* history: the first distance a resolution ever wrote to the cache
  shipment,               \* the Shipment table: the status of each row
  shipmentStatusHistory,  \* the ShipmentStatusHistory table, in order of creation
  calls,                  \* the ShipmentsService calls, one per slot
  begun,                  \* how many create and updateStatus calls have begun
  shipmentDriverId,       \* the driverId column of the older Shipment rows
  driver,                 \* the Driver table: applicationStatus and status by id
  assigns                 \* the assignDriver calls, one per slot

assignVars == <<shipmentDriverId, driver, assigns>>

shipmentVars == <<shipment, shipmentStatusHistory, calls, begun, assignVars>>

vars == <<now, env, distanceCache, inv, firstResolved, shipmentVars>>

Slots == {"s1", "s2"}

TickMs == 12 * 60 * 60 * 1000
\* line 249 with a life of two days
CacheTtlTwoDays == 48 * 60 * 60 * 1000
CacheTtlMs == 24 * 60 * 60 * 1000
MaxTicks == 3

Dto(freeText, mode, origin, destination, weightKg, dimensionsCm, volumeCbm, containerType, distanceKm, start, end, isExpress, detentionDemurrageDays) ==
  [ freeText |-> freeText, mode |-> mode, origin |-> origin,
    destination |-> destination, weightKg |-> weightKg,
    dimensionsCm |-> dimensionsCm, volumeCbm |-> volumeCbm,
    containerType |-> containerType, distanceKm |-> distanceKm,
    start |-> start, end |-> end, isExpress |-> isExpress,
    detentionDemurrageDays |-> detentionDemurrageDays ]

EmptyDto ==
  Dto(Undef, Undef, Undef, Undef, NoNum, NoDims, NoNum, Undef, NoNum,
      NoLatLng, NoLatLng, Undef, NoNum)

NoResolved ==
  [found |-> FALSE, distanceKm |-> 0, hasDuration |-> FALSE, source |-> "none"]

\* the latest provider call of an invocation: which one, whether the fetch
\* failed, whether the provider function returned a result
\* timedOut: the call ended by the abort of its timer
NoReply == [call |-> "none", failed |-> FALSE, result |-> FALSE, timedOut |-> FALSE]

NoResponse ==
  [ status |-> "none", keys |-> {}, message |-> "", missingFields |-> << >>,
    quote |-> NoQuote ]

\* An invocation: where it stands (pc), the dto received, the local req
\* (merged, with req.distanceKm as the code updates it), Date.now() at line
\* 231, the locals start/end of resolveDistanceKm, the number of provider
\* calls made, what resolveDistanceKm returned, how the cache lookup went,
\* and once it has returned (pc = "done") the response and whether it wrote
\* the cache.  after: it began when firstResolved was in force for its key.
\* sent: Date.now() when the latest provider call armed its timer.
Idle ==
  [ pc |-> "idle", dto |-> EmptyDto, req |-> MergeRequest(EmptyDto), now0 |-> 0,
    start |-> NoLatLng, end |-> NoLatLng, calls |-> 0, sent |-> 0, reply |-> NoReply,
    resolved |-> NoResolved, lookup |-> "none", resp |-> NoResponse,
    wrote |-> FALSE, after |-> FALSE ]

NoFirst == [set |-> FALSE, key |-> <<"", "">>, distanceKm |-> 0, expires |-> 0]

\* the shipments the model lets be created, and the ids the database gives them
MaxShipments == 1
ShipmentIds == 1..MaxShipments

\* the updateStatus calls the model lets begin
MaxUpdates == 2

CallSlots == {"k1", "k2"}

CreateShipmentDto(customerId, pickupLocation, pickupCity, destinationLocation) ==
  [ customerId |-> customerId, pickupLocation |-> pickupLocation,
    pickupCity |-> pickupCity, destinationLocation |-> destinationLocation ]

NoShipmentDto == CreateShipmentDto("", Undef, Undef, Undef)

\* a call slot: the operation, where it stands, the shipment and status it is
\* about, and how it ended
NoCall ==
  [ op |-> "none", pc |-> "idle", dto |-> NoShipmentDto, id |-> 0, status |-> "",
    outcome |-> "" ]

\* null in a column
Null == "<null>"

\* Shipment rows that exist from the start, next to the rows create makes
\* (sh3 has its driver already), and the rows of the Driver table
ShipmentRows == {"sh1", "sh2", "sh3"}
DriverIds == {"d1", "d2", "d3", "d4"}

DriverRow(applicationStatus, status) ==
  [applicationStatus |-> applicationStatus, status |-> status]

NoAssign == [pc |-> "idle", shipmentId |-> "", driverId |-> "", outcome |-> ""]

Init ==
  /\ now = 0
  /\ env \in [liqKey : BOOLEAN, orsKey : BOOLEAN, steady : BOOLEAN]
  /\ distanceCache = {}
  /\ inv = [s \in Slots |-> Idle]
  /\ firstResolved = NoFirst
  /\ shipment = [id \in ShipmentIds |-> "absent"]
  /\ shipmentStatusHistory = << >>
  /\ calls = [k \in CallSlots |-> NoCall]
  /\ begun = [create |-> 0, updateStatus |-> 0]
  /\ shipmentDriverId = [r \in ShipmentRows |-> IF r = "sh3" THEN "d4" ELSE Null]
  /\ driver = [d \in DriverIds |->
                 CASE d = "d3" -> DriverRow("PENDING", "AVAILABLE")
                   [] d = "d4" -> DriverRow("APPROVED", "BUSY")
                   [] OTHER    -> DriverRow("APPROVED", "AVAILABLE")]
  /\ assigns = [k \in CallSlots |-> NoAssign]

\* ------------------------------------------------------------------------
\* estimate: the response once the distance is settled (lines 262-288)
\* ------------------------------------------------------------------------
SameLocationMessage ==
  "Origin and destination cannot be the same location. Please provide different addresses."

\* calculate has no throwing path on a validated request; the catch of lines
\* 281-287 is kept as the handling of a throw
TryCalculate(mode, req, resolutionAssumptions) ==
  [threw |-> FALSE, quote |-> calculate(mode, req, resolutionAssumptions)]

\* lines 196-264: every field found missing, in the order pushed
Missing(req) ==
  MissingBeforeDistance(req, req.mode)
    \o (IF req.mode = "ground" /\ ~FinitePositive(req.distanceKm)
          THEN <<"distanceKm">> ELSE << >>)

\* a clarification that also carries a quote object
ClarificationWithQuote(missing) ==
  [ status |-> "needs_clarification", keys |-> {"message", "missingFields", "quote"},
    message |-> "Missing fields for manual quote",
    missingFields |-> Dedup(missing), quote |-> NoQuote ]

\* lines 266-272
NeedsClarification(missing) ==
  [ status |-> "needs_clarification", keys |-> {"message", "missingFields"},
    message |-> "Missing fields for manual quote",
    missingFields |-> Dedup(missing), quote |-> NoQuote ]

\* lines 274-287
Quoted(try) ==
  IF try.threw
    THEN [ status |-> "error", keys |-> {"message"},
           message |-> "Manual estimate failed", missingFields |-> << >>,
           quote |-> NoQuote ]
  ELSE [ status |-> "ok", keys |-> {"message", "quote"},
         message |-> "Estimate only.", missingFields |-> << >>,
         quote |-> try.quote ]

\* lines 262-288, for the merged request with its mode and distance settled
Respond(req, resolutionAssumptions) ==
  IF Missing(req) # << >> THEN NeedsClarification(Missing(req))
  ELSE Quoted(TryCalculate(req.mode, req, resolutionAssumptions))

SameLocationError ==
  [ status |-> "error", keys |-> {"message"}, message |-> SameLocationMessage,
    missingFields |-> << >>, quote |-> NoQuote ]

\* a rejected promise: what the caller of estimate would see of an uncaught throw
Escaped ==
  [ status |-> "exception", keys |-> {}, message |-> "", missingFields |-> << >>,
    quote |-> NoQuote ]

\* ------------------------------------------------------------------------
\* The distance cache
\* ------------------------------------------------------------------------
CacheHas(key) == \E e \in distanceCache : e.key = key
CacheGet(key) == CHOOSE e \in distanceCache : e.key = key
CacheDelete(cache, key) == {e \in cache : e.key # key}
CacheSet(cache, key, distanceKm, hasDuration, expires) ==
  CacheDelete(cache, key)
    \cup {[key |-> key, distanceKm |-> distanceKm, hasDuration |-> hasDuration,
           expires |-> expires]}

\* ------------------------------------------------------------------------
\* Providers.  With env.steady a provider answers every query the same way;
\* otherwise each call may fail in any of the ways a fetch can.
\* ------------------------------------------------------------------------
GeocodeAnswer(query) ==
  IF ToLowerCase(query) = "ikeja"
    THEN Payload(JsonNum(IkejaLL.lat), JsonNum(IkejaLL.lng))
  ELSE Payload(JsonMissing, JsonMissing)          \* an empty result list

\* the road distance a routing provider reports, in metres
RoadMetres(provider, start, end) ==
  IF provider = "locationiq" THEN (haversineKm(start, end) * 13) \div 10
  ELSE (haversineKm(start, end) * 14) \div 10

RouteAnswer(provider, start, end) ==
  Payload(JsonNum(RoadMetres(provider, start, end)), JsonNum(3600))

Failures ==
  { Failure("network"), Failure("abort"), Failure("http"),
    Payload(JsonNull, JsonNull), Payload(JsonText, JsonText) }

GeocodeOutcomes(query) ==
  IF env.steady THEN {GeocodeAnswer(query)}
  ELSE {GeocodeAnswer(query)} \cup Failures

RouteOutcomes(provider, start, end) ==
  IF env.steady THEN {RouteAnswer(provider, start, end)}
  ELSE {RouteAnswer(provider, start, end)} \cup Failures

\* ------------------------------------------------------------------------
\* resolveDistanceKm (lines 802-840), cut at its external calls
\* ------------------------------------------------------------------------
\* lines 824-839 with the lane table consulted before the great-circle distance
FallbackLaneFirst(c) ==
  IF inferDistanceKm(c.req.origin, c.req.destination) \notin {NoNum, 0}
    THEN [found |-> TRUE,
          distanceKm |-> inferDistanceKm(c.req.origin, c.req.destination),
          hasDuration |-> FALSE, source |-> "heuristic"]
  ELSE IF c.start.ok /\ c.end.ok /\ haversineKm(c.start, c.end) > 0
    THEN [found |-> TRUE, distanceKm |-> haversineKm(c.start, c.end),
          hasDuration |-> FALSE, source |-> "haversine"]
  ELSE NoResolved

\* lines 824-839: what is left when no routing provider answered
Fallback(c) ==
  IF c.start.ok /\ c.end.ok /\ haversineKm(c.start, c.end) > 0
    THEN [found |-> TRUE, distanceKm |-> haversineKm(c.start, c.end),
          hasDuration |-> FALSE, source |-> "haversine"]
  ELSE IF inferDistanceKm(c.req.origin, c.req.destination) \notin {NoNum, 0}
    THEN [found |-> TRUE,
          distanceKm |-> inferDistanceKm(c.req.origin, c.req.destination),
          hasDuration |-> FALSE, source |-> "heuristic"]
  ELSE NoResolved

\* The external calls of resolveDistanceKm in order: 1 geocode the origin,
\* 2 geocode the destination, 3 LocationIQ directions, 4 OpenRoute directions.
\* A call is made when its condition holds and its key is set (a provider
\* function without key returns null at once).
StageCallsKeyless(c, stage) ==
  CASE stage = 1 -> ~c.start.ok /\ c.req.origin # Undef
    [] stage = 2 -> ~c.end.ok /\ c.req.destination # Undef
    [] stage = 3 -> c.start.ok /\ c.end.ok
    [] stage = 4 -> c.start.ok /\ c.end.ok

StageCalls(c, stage) ==
  CASE stage = 1 -> ~c.start.ok /\ c.req.origin # Undef /\ env.liqKey
    [] stage = 2 -> ~c.end.ok /\ c.req.destination # Undef /\ env.liqKey
    [] stage = 3 -> c.start.ok /\ c.end.ok /\ env.liqKey
    [] stage = 4 -> c.start.ok /\ c.end.ok /\ env.orsKey

StagePc(stage) ==
  CASE stage = 1 -> "geocodeOrigin"
    [] stage = 2 -> "geocodeDestination"
    [] stage = 3 -> "routeLocationIq"
    [] stage = 4 -> "routeOpenRoute"

\* runs resolveDistanceKm from the given stage up to its next external call,
\* or to its return
Advance(c, stage) ==
  IF \E k \in stage..4 : StageCalls(c, k)
    THEN [c EXCEPT !.pc = StagePc(CHOOSE k \in stage..4 :
                                    /\ StageCalls(c, k)
                                    /\ \A j \in stage..(k - 1) : ~StageCalls(c, j)),
                   !.calls = @ + 1, !.sent = now]
  ELSE [c EXCEPT !.pc = "resume", !.resolved = Fallback(c)]

\* ------------------------------------------------------------------------
\* estimate, as the steps between its awaits
\* ------------------------------------------------------------------------
\* line 235 taking every entry for expired
CacheFreshNever(key, t) == FALSE

\* line 235 serving an entry at the instant of its expiry too
CacheFreshInclusive(key, t) == CacheHas(key) /\ CacheGet(key).expires >= t

\* line 235: cached && cached.expires > now
CacheFresh(key, t) == CacheHas(key) /\ CacheGet(key).expires > t

\* line 244 taken whatever resolveDistanceKm returned
ShouldCacheAlways(resolved) == TRUE

\* line 244: if (resolved?.distanceKm)
ShouldCache(resolved) == resolved.found /\ resolved.distanceKm # 0

SourceLine(source) ==
  CASE source = "locationiq" -> "Distance source: locationiq"
    [] source = "openroute"  -> "Distance source: openroute"
    [] source = "haversine"  -> "Distance source: haversine"
    [] source = "heuristic"  -> "Distance source: heuristic"

\* lines 250-258 without a line for the strategies that call no provider
ResolvedLinesProvidersOnly(resolved) ==
  IF resolved.source \in {"haversine", "heuristic"} THEN << >>
  ELSE <<SourceLine(resolved.source)>>
         \o (IF resolved.hasDuration THEN <<"Drive time (estimate)">> ELSE << >>)

\* lines 250-258: the assumptions pushed after a resolution
ResolvedLines(resolved) ==
  <<SourceLine(resolved.source)>>
    \o (IF resolved.hasDuration THEN <<"Drive time (estimate)">> ELSE << >>)

\* the key of a request's cache entry (line 230)
KeyOf(req) == distanceCacheKey(req.origin, req.destination)

\* lines 182-200: the merged request with its mode settled
Started(dto, t) ==
  [Idle EXCEPT !.dto = dto, !.now0 = t,
               !.req = [MergeRequest(dto) EXCEPT !.mode = EffectiveMode(MergeRequest(dto))]]

\* the invocation returns resp
Done(c, resp) == [c EXCEPT !.pc = "done", !.resp = resp]

\* lines 262-288 with req.distanceKm set to distanceKm
Answer(c, distanceKm, resolutionAssumptions) ==
  Done([c EXCEPT !.req.distanceKm = distanceKm],
       Respond([c.req EXCEPT !.distanceKm = distanceKm], resolutionAssumptions))

\* line 228 for every ground request, whatever distance it carries
NeedsDistanceAnyGround(req) == req.mode = "ground"

\* line 228: ground, and the request's own distance is no positive number
NeedsDistance(req) == req.mode = "ground" /\ ~FinitePositive(req.distanceKm)

\* lines 802-815: resolveDistanceKm up to its first external call
BeginResolve(c) ==
  Advance([c EXCEPT
             !.start = IF c.req.start.ok THEN c.req.start
                       ELSE resolveNigeriaCoords(c.req.origin),
             !.end = IF c.req.end.ok THEN c.req.end
                     ELSE resolveNigeriaCoords(c.req.destination)], 1)

\* line 235, for an invocation that gets as far as the cache lookup
Hit(c) ==
  /\ ~SameLocation(c.req)
  /\ NeedsDistance(c.req)
  /\ CacheFresh(KeyOf(c.req), c.now0)

\* firstResolved is in force for a request that looks the cache up now
InForce(req) ==
  /\ NeedsDistance(req)
  /\ firstResolved.set
  /\ firstResolved.key = KeyOf(req)
  /\ now < firstResolved.expires

\* the invocation c after lines 181-242; hit: the lookup of line 235 succeeds
BegunWith(c, hit) ==
  IF SameLocation(c.req) THEN Done(c, SameLocationError)
  ELSE IF NeedsDistance(c.req) /\ ~hit
    THEN BeginResolve([c EXCEPT !.after = InForce(c.req),
                                !.lookup = IF CacheHas(KeyOf(c.req)) THEN "expired"
                                           ELSE "miss"])
  ELSE Answer([c EXCEPT !.after = InForce(c.req),
                        !.lookup = IF hit THEN "hit" ELSE "none"],
              IF hit THEN CacheGet(KeyOf(c.req)).distanceKm ELSE c.req.distanceKm,
              IF hit THEN <<"Distance source: cache">> ELSE << >>)

Begun(c) == BegunWith(c, Hit(c))

\* lines 181-242: up to the first await, or to the return when there is none
EstimateBegin(s, dto) ==
  /\ inv[s].pc = "idle"
  /\ inv' = [inv EXCEPT ![s] = Begun(Started(dto, now))]
  /\ distanceCache' =
       IF inv'[s].lookup = "expired"
         THEN CacheDelete(distanceCache, KeyOf(inv'[s].req))
       ELSE distanceCache
  /\ UNCHANGED <<now, env, firstResolved, shipmentVars>>

Noted(c, out, gotResult) ==
  [c EXCEPT !.reply = [call |-> c.pc, failed |-> out \in Failures,
                       result |-> gotResult, timedOut |-> FALSE]]

\* lines 812-815: the awaited getCoordsLocationIq has returned r
GeocodeReturned(c, r) ==
  IF r.threw THEN Done(c, Escaped)
  ELSE IF c.pc = "geocodeOrigin" THEN Advance([c EXCEPT !.start = r.value], 2)
  ELSE Advance([c EXCEPT !.end = r.value], 3)

AfterGeocode(c, out) ==
  GeocodeReturned(Noted(c, out, getCoordsLocationIq(out).value.ok),
                  getCoordsLocationIq(out))

\* lines 817-822 with a routing call that returned nothing made again
RouteReturnedRetry(c, r) ==
  IF r.threw THEN Done(c, Escaped)
  ELSE IF r.found
    THEN [c EXCEPT !.pc = "resume",
            !.resolved = [found |-> TRUE, distanceKm |-> r.distanceKm,
                          hasDuration |-> r.hasDuration,
                          source |-> IF c.pc = "routeLocationIq" THEN "locationiq"
                                     ELSE "openroute"]]
  ELSE Advance(c, IF c.pc = "routeLocationIq" THEN 3 ELSE 4)

\* lines 817-822: an awaited getDistance... has returned r
RouteReturned(c, r) ==
  IF r.threw THEN Done(c, Escaped)
  ELSE IF r.found
    THEN [c EXCEPT !.pc = "resume",
            !.resolved = [found |-> TRUE, distanceKm |-> r.distanceKm,
                          hasDuration |-> r.hasDuration,
                          source |-> IF c.pc = "routeLocationIq" THEN "locationiq"
                                     ELSE "openroute"]]
  ELSE Advance(c, IF c.pc = "routeLocationIq" THEN 4 ELSE 5)

RouteResult(c, out) ==
  IF c.pc = "routeLocationIq" THEN getDistanceLocationIq(out)
  ELSE getDistanceOpenRoute(out)

AfterRoute(c, out) ==
  RouteReturned(Noted(c, out, RouteResult(c, out).found), RouteResult(c, out))

\* the query of the geocoding call an invocation waits for
GeocodeQuery(c) ==
  IF c.pc = "geocodeOrigin" THEN c.req.origin ELSE c.req.destination

\* the geocoding fetch settles
GeocodeReply(s) ==
  /\ inv[s].pc \in {"geocodeOrigin", "geocodeDestination"}
  /\ \E out \in GeocodeOutcomes(GeocodeQuery(inv[s])) :
       inv' = [inv EXCEPT ![s] = AfterGeocode(inv[s], out)]
  /\ UNCHANGED <<now, env, distanceCache, firstResolved, shipmentVars>>

\* a routing fetch settles
RouteReply(s) ==
  /\ inv[s].pc \in {"routeLocationIq", "routeOpenRoute"}
  /\ \E out \in RouteOutcomes(IF inv[s].pc = "routeLocationIq" THEN "locationiq"
                              ELSE "openroute", inv[s].start, inv[s].end) :
       inv' = [inv EXCEPT ![s] = AfterRoute(inv[s], out)]
  /\ UNCHANGED <<now, env, distanceCache, firstResolved, shipmentVars>>

\* lines 243-288: the invocation once resolveDistanceKm has returned
Resumed(c) ==
  Answer([c EXCEPT !.wrote = ShouldCache(c.resolved)],
         IF ShouldCache(c.resolved) THEN c.resolved.distanceKm ELSE c.req.distanceKm,
         IF ShouldCache(c.resolved) THEN ResolvedLines(c.resolved) ELSE << >>)

\* lines 243-288: estimate resumes with the result of resolveDistanceKm
EstimateResume(s) ==
  /\ inv[s].pc = "resume"
  /\ inv' = [inv EXCEPT ![s] = Resumed(inv[s])]
  /\ distanceCache' =
       IF ShouldCache(inv[s].resolved)
         THEN CacheSet(distanceCache, KeyOf(inv[s].req), inv[s].resolved.distanceKm,
                       inv[s].resolved.hasDuration, inv[s].now0 + CacheTtlMs)
       ELSE distanceCache
  /\ firstResolved' =
       IF ShouldCache(inv[s].resolved) /\ ~firstResolved.set
         THEN [set |-> TRUE, key |-> KeyOf(inv[s].req),
               distanceKm |-> inv[s].resolved.distanceKm,
               expires |-> inv[s].now0 + CacheTtlMs]
       ELSE firstResolved
  /\ UNCHANGED <<now, env, shipmentVars>>

\* envNumber('LOCATIONIQ_TIMEOUT_MS', 8_000) and envNumber('OPENROUTE_TIMEOUT_MS',
\* 8_000) with no override set
timeoutMs == 8000

\* no provider function arms a timer
TimerNever(c) == FALSE

\* setTimeout(() => controller.abort(), timeoutMs) is pending: armed before the
\* fetch of each provider function, cleared in its finally block
TimerArmed(c) ==
  c.pc \in {"geocodeOrigin", "geocodeDestination", "routeLocationIq", "routeOpenRoute"}

\* the timer of the pending call is due
TimerDue(c) == TimerArmed(c) /\ now >= c.sent + timeoutMs

\* controller.abort(): the awaited fetch rejects and the catch block returns null
TimedOut(c) ==
  [(IF c.pc \in {"geocodeOrigin", "geocodeDestination"}
      THEN AfterGeocode(c, Failure("abort"))
    ELSE AfterRoute(c, Failure("abort"))) EXCEPT !.reply.timedOut = TRUE]

\* the timer callback of a pending provider call runs
ProviderTimeout(s) ==
  /\ TimerDue(inv[s])
  /\ inv' = [inv EXCEPT ![s] = TimedOut(inv[s])]
  /\ UNCHANGED <<now, env, distanceCache, firstResolved, shipmentVars>>

\* a geocoding fetch settles before its timer is due
GeocodeReplyInTime(s) == now < inv[s].sent + timeoutMs /\ GeocodeReply(s)

\* a routing fetch settles before its timer is due
RouteReplyInTime(s) == now < inv[s].sent + timeoutMs /\ RouteReply(s)

\* the caller has the response; the slot is free for the next request
Return(s) ==
  /\ inv[s].pc = "done"
  /\ inv' = [inv EXCEPT ![s] = Idle]
  /\ UNCHANGED <<now, env, distanceCache, firstResolved, shipmentVars>>

\* time passes
Tick ==
  /\ now < MaxTicks * TickMs
  /\ now' = now + TickMs
  /\ UNCHANGED <<env, distanceCache, inv, firstResolved, shipmentVars>>

\* the clock of the model moves in steps of half a timeout
ElapseMs == timeoutMs \div 2
MaxElapse == 8

\* the external calls one invocation makes at most
MaxCalls == 4

\* time passes while provider calls are pending; a due timer runs before the
\* clock moves on
Elapse ==
  /\ now < MaxElapse * ElapseMs
  /\ \A s \in Slots : ~TimerDue(inv[s])
  /\ now' = now + ElapseMs
  /\ UNCHANGED <<env, distanceCache, inv, firstResolved, shipmentVars>>

\* a request arrives early enough for all its provider timers to run out
\* before the clock of the model stops
EstimateBeginEarly(s, dto) ==
  /\ now + MaxCalls * timeoutMs <= MaxElapse * ElapseMs
  /\ EstimateBegin(s, dto)

\* ------------------------------------------------------------------------
\* ShipmentsService (shipments.service.ts): create and updateStatus, as the
\* steps between their awaits. Each Prisma call is one step of the database;
\* a rejected Prisma call and a clash of generated tracking ids are left out.
\* ------------------------------------------------------------------------
\* the rows of the Customer table
Customers == {"c1"}

\* formatLocation (lines 18-23): the trimmed non-empty parts; the joined
\* string is empty exactly when there is none
formatLocation(parts) ==
  LET trimmed == [i \in DOMAIN parts |-> IF parts[i] = Undef THEN "" ELSE Trim(parts[i])]
      nonEmpty(p) == p # ""
  IN  SelectSeq(trimmed, nonEmpty)

\* lines 38-54: location?.trim() || formatLocation([...]) is a non-empty string
LocationGiven(location, parts) ==
  \/ location # Undef /\ Trim(location) # ""
  \/ formatLocation(parts) # << >>

Rows == {id \in ShipmentIds : shipment[id] # "absent"}

Thrown(c, message) == [c EXCEPT !.pc = "done", !.outcome = message]

\* create is called: it runs to the await of line 27
CreateBegin(k, dto) ==
  /\ calls[k].pc = "idle"
  /\ begun.create < MaxShipments
  /\ calls' = [calls EXCEPT ![k] = [NoCall EXCEPT !.op = "create", !.pc = "findCustomer",
                                                  !.dto = dto]]
  /\ begun' = [begun EXCEPT !.create = @ + 1]
  /\ UNCHANGED <<now, env, distanceCache, inv, firstResolved, assignVars, shipment, shipmentStatusHistory>>

\* lines 27-85: customer.findUnique answers; the checks; shipment.create is sent
CreateValidated(k) ==
  /\ calls[k].pc = "findCustomer"
  /\ calls' = [calls EXCEPT ![k] =
        IF calls[k].dto.customerId \notin Customers
          THEN Thrown(calls[k], "Customer not found")
        ELSE IF ~LocationGiven(calls[k].dto.pickupLocation,
                               <<Undef, calls[k].dto.pickupCity, Undef, Undef>>)
          THEN Thrown(calls[k], "Pickup location is required")
        ELSE IF ~LocationGiven(calls[k].dto.destinationLocation,
                               <<Undef, Undef, Undef, Undef>>)
          THEN Thrown(calls[k], "Destination location is required")
        ELSE [calls[k] EXCEPT !.pc = "createShipment"]]
  /\ UNCHANGED <<now, env, distanceCache, inv, firstResolved, assignVars, shipment, shipmentStatusHistory, begun>>

\* lines 81-100: shipment.create inserts the row with status PENDING; line 103
\* sends shipmentStatusHistory.create
CreateShipmentInserted(k) ==
  /\ calls[k].pc = "createShipment"
  /\ \E id \in ShipmentIds :
       /\ shipment[id] = "absent"
       /\ \A j \in ShipmentIds : j < id => shipment[j] # "absent"
       /\ shipment' = [shipment EXCEPT ![id] = "PENDING"]
       /\ calls' = [calls EXCEPT ![k] = [@ EXCEPT !.pc = "createHistory", !.id = id,
                                                  !.status = "PENDING"]]
  /\ UNCHANGED <<now, env, distanceCache, inv, firstResolved, assignVars, shipmentStatusHistory, begun>>

\* lines 103-112 and 266-278: shipmentStatusHistory.create inserts the entry
\* and the call returns the shipment
HistoryInserted(k) ==
  /\ calls[k].pc = "createHistory"
  /\ shipmentStatusHistory' =
       Append(shipmentStatusHistory, [shipmentId |-> calls[k].id, status |-> calls[k].status])
  /\ calls' = [calls EXCEPT ![k] = [@ EXCEPT !.pc = "done", !.outcome = "ok"]]
  /\ UNCHANGED <<now, env, distanceCache, inv, firstResolved, assignVars, shipment, begun>>

\* the status values of an UpdateShipmentStatusDto the model draws from
UpdateStatuses == {"IN_TRANSIT", "DELIVERED"}

\* updateStatus is called: it runs to the await of line 241
UpdateStatusBegin(k, id, status) ==
  /\ calls[k].pc = "idle"
  /\ begun.updateStatus < MaxUpdates
  /\ calls' = [calls EXCEPT ![k] = [NoCall EXCEPT !.op = "updateStatus", !.pc = "findOne",
                                                  !.id = id, !.status = status]]
  /\ begun' = [begun EXCEPT !.updateStatus = @ + 1]
  /\ UNCHANGED <<now, env, distanceCache, inv, firstResolved, assignVars, shipment, shipmentStatusHistory>>

\* line 241 with findOne (150-179): the row is read; shipment.update is sent
UpdateStatusFound(k) ==
  /\ calls[k].pc = "findOne"
  /\ calls' = [calls EXCEPT ![k] =
        IF calls[k].id \in Rows THEN [calls[k] EXCEPT !.pc = "updateShipment"]
        ELSE Thrown(calls[k], "Shipment not found")]
  /\ UNCHANGED <<now, env, distanceCache, inv, firstResolved, assignVars, shipment, shipmentStatusHistory, begun>>

\* lines 244-264: shipment.update sets the status; line 267 sends
\* shipmentStatusHistory.create
UpdateStatusUpdated(k) ==
  /\ calls[k].pc = "updateShipment"
  /\ shipment' = [shipment EXCEPT ![calls[k].id] = calls[k].status]
  /\ calls' = [calls EXCEPT ![k] = [@ EXCEPT !.pc = "createHistory"]]
  /\ UNCHANGED <<now, env, distanceCache, inv, firstResolved, assignVars, shipmentStatusHistory, begun>>

\* the caller has its answer; the slot is free again
CallSettled(k) ==
  /\ calls[k].pc = "done"
  /\ calls' = [calls EXCEPT ![k] = NoCall]
  /\ UNCHANGED <<now, env, distanceCache, inv, firstResolved, assignVars, shipment, shipmentStatusHistory, begun>>

\* assignDriver (lines 281-328), as the steps between its awaits
AssignThrown(a, message) == [a EXCEPT !.pc = "done", !.outcome = message]

\* lines 282-286: the driverId check; shipment.findUnique is sent
AssignDriverBegin(k, shipmentId, driverId) ==
  /\ assigns[k].pc = "idle"
  /\ assigns' = [assigns EXCEPT ![k] =
        IF driverId = ""
          THEN AssignThrown([NoAssign EXCEPT !.shipmentId = shipmentId],
                            "driverId is required")
        ELSE [NoAssign EXCEPT !.pc = "findShipment", !.shipmentId = shipmentId,
                              !.driverId = driverId]]
  /\ UNCHANGED <<now, env, distanceCache, inv, firstResolved, shipment,
                 shipmentStatusHistory, calls, begun, shipmentDriverId, driver>>

\* lines 286-299: shipment.findUnique answers; the checks; driver.findUnique is sent
AssignDriverShipmentFound(k) ==
  /\ assigns[k].pc = "findShipment"
  /\ assigns' = [assigns EXCEPT ![k] =
        IF assigns[k].shipmentId \notin ShipmentRows
          THEN AssignThrown(assigns[k], "Shipment not found")
        ELSE IF shipmentDriverId[assigns[k].shipmentId] # Null
          THEN AssignThrown(assigns[k], "Shipment already assigned")
        ELSE [assigns[k] EXCEPT !.pc = "findDriver"]]
  /\ UNCHANGED <<now, env, distanceCache, inv, firstResolved, shipment,
                 shipmentStatusHistory, calls, begun, shipmentDriverId, driver>>

\* lines 299-316: driver.findUnique answers; the checks; the transaction is sent
AssignDriverDriverFound(k) ==
  /\ assigns[k].pc = "findDriver"
  /\ assigns' = [assigns EXCEPT ![k] =
        IF assigns[k].driverId \notin DriverIds
          THEN AssignThrown(assigns[k], "Driver not found")
        ELSE IF driver[assigns[k].driverId].applicationStatus # "APPROVED"
          THEN AssignThrown(assigns[k], "Driver is not approved")
        ELSE IF driver[assigns[k].driverId].status # "AVAILABLE"
          THEN AssignThrown(assigns[k], "Driver is not available")
        ELSE [assigns[k] EXCEPT !.pc = "transaction"]]
  /\ UNCHANGED <<now, env, distanceCache, inv, firstResolved, shipment,
                 shipmentStatusHistory, calls, begun, shipmentDriverId, driver>>

\* lines 316-327: the transaction of the two updates commits; the call returns
AssignDriverCommitted(k) ==
  /\ assigns[k].pc = "transaction"
  /\ shipmentDriverId' = [shipmentDriverId EXCEPT ![assigns[k].shipmentId] =
                                                   assigns[k].driverId]
  /\ driver' = [driver EXCEPT ![assigns[k].driverId].status = "BUSY"]
  /\ assigns' = [assigns EXCEPT ![k] = [@ EXCEPT !.pc = "done", !.outcome = "ok"]]
  /\ UNCHANGED <<now, env, distanceCache, inv, firstResolved, shipment,
                 shipmentStatusHistory, calls, begun>>

\* the caller has its answer; the slot is free again
AssignSettled(k) ==
  /\ assigns[k].pc = "done"
  /\ assigns' = [assigns EXCEPT ![k] = NoAssign]
  /\ UNCHANGED <<now, env, distanceCache, inv, firstResolved, shipment,
                 shipmentStatusHistory, calls, begun, shipmentDriverId, driver>>

\* ------------------------------------------------------------------------
\* Requests served
\* ------------------------------------------------------------------------
GroundDto(origin, destination, distanceKm, start, end) ==
  Dto(Undef, "ground", origin, destination, NoNum, NoDims, NoNum, Undef,
      distanceKm, start, end, Undef, NoNum)

\* ground requests around two cache keys, served concurrently
GroundRequests ==
  { GroundDto("Lagos", "Kano", NoNum, NoLatLng, NoLatLng),
    GroundDto(" LAGOS ", "Kano", NoNum, NoLatLng, NoLatLng),
    GroundDto("Lagos", "Kano", NoNum, AbujaLL, KanoLL),
    GroundDto("Ikeja", "Kano", NoNum, NoLatLng, NoLatLng),
    GroundDto("Ikeja", "Kano", NoNum, IkejaLL, KanoLL),
    GroundDto("Lagos", "Kano", 1000 * 1000, NoLatLng, NoLatLng) }

Origins == {Undef, "Lagos", "China", " "}
Destinations == {Undef, " LAGOS ", "Kano", "London"}
WeightsG == {NoNum, 10 * 1000, 50123}

FreeTexts ==
  { "Need a quote: 10kg from China to Lagos by air",
    "Ocean shipment from China to Lagos",
    "Truck from Lagos to Kano 1000km",
    "Truck from Lagos to Ogun 42kg",
    "Express air freight from Lagos to Lagos 5kg",
    "20ft container from Lagos to Lagos",
    "Quote from China to Lagos 10kg",
    "Container truck from Lagos to Kano 1000km" }

\* pairs of distinct place names: within Lagos, Abuja, Kano, Port Harcourt and
\* Abeokuta, and between two cities
CityPairs ==
  { <<"Lagos", "Lagos Island">>, <<"Garki Abuja", "Abuja">>, <<"Kano City", "Kano">>,
    <<"PH", "Portharcourt">>, <<"Ogun", "Abeokuta">>, <<"Lagos", "Abuja">> }

\* distances at and just above the tier limits of 100, 300 and 600 km
TierMetres ==
  { 100 * 1000, 100 * 1000 + 1, 300 * 1000, 300 * 1000 + 1, 600 * 1000, 600 * 1000 + 1 }

\* requests that give fields both explicitly and in freeText
ConflictRequests ==
  { Dto("Need a quote: 10kg from China to Lagos by air", "parcel", "London", "Kano",
        50123, NoDims, NoNum, Undef, NoNum, NoLatLng, NoLatLng, Undef, NoNum),
    Dto("Need a quote: 10kg from China to Lagos by air", Undef, Undef, Undef,
        50123, <<60, 50, 40>>, NoNum, Undef, NoNum, NoLatLng, NoLatLng, Undef, NoNum),
    Dto("Truck from Lagos to Kano 1000km", Undef, Undef, Undef,
        NoNum, NoDims, NoNum, Undef, 12345, NoLatLng, NoLatLng, Undef, NoNum),
    Dto("Truck from Lagos to Kano 1000km", Undef, Undef, Undef,
        NoNum, NoDims, NoNum, Undef, 0, NoLatLng, NoLatLng, Undef, NoNum),
    Dto("Express air freight from Lagos to Lagos 5kg", "air", "China", Undef,
        NoNum, NoDims, NoNum, Undef, NoNum, NoLatLng, NoLatLng, "false", NoNum),
    Dto("Express air freight from Lagos to Lagos 5kg", Undef, "China", Undef,
        NoNum, NoDims, NoNum, Undef, NoNum, NoLatLng, NoLatLng, Undef, NoNum),
    Dto("20ft container from Lagos to Lagos", Undef, Undef, "London",
        NoNum, NoDims, NoNum, "40hc", NoNum, NoLatLng, NoLatLng, Undef, 2),
    Dto("Ocean shipment from China to Lagos", "ground", Undef, " ",
        NoNum, NoDims, NoNum, Undef, NoNum, NoLatLng, NoLatLng, Undef, NoNum) }

\* requests of every mode, served one at a time
QuoteRequests ==
  { Dto(Undef, Undef, o, d, NoNum, NoDims, NoNum, Undef, NoNum, NoLatLng, NoLatLng,
        Undef, NoNum) : o \in Origins, d \in Destinations }
  \cup
  { Dto(Undef, "parcel", o, d, w, dims, NoNum, Undef, NoNum, NoLatLng, NoLatLng,
        Undef, NoNum) :
      o \in Origins, d \in Destinations, w \in WeightsG, dims \in {NoDims, <<60, 50, 40>>} }
  \cup
  { Dto(Undef, "air", o, d, w, v[1], v[2], Undef, NoNum, NoLatLng, NoLatLng, x, NoNum) :
      o \in Origins, d \in Destinations, w \in WeightsG,
      v \in {<<NoDims, NoNum>>, <<<<60, 50, 40>>, NoNum>>, <<NoDims, 300>>},
      x \in {Undef, "true"} }
  \cup
  { Dto(Undef, "ocean", o, d, NoNum, NoDims, NoNum, ct, NoNum, NoLatLng, NoLatLng,
        Undef, dd) :
      o \in Origins, d \in Destinations, ct \in {Undef, "20ft", "40hc"}, dd \in {NoNum, 2} }
  \cup
  { GroundDto(o, d, km, NoLatLng, NoLatLng) :
      o \in Origins, d \in Destinations, km \in {NoNum, 0, 1000 * 1000, 12345} }
  \cup
  { Dto(t, Undef, Undef, Undef, NoNum, NoDims, NoNum, Undef, NoNum, NoLatLng, NoLatLng,
        Undef, NoNum) : t \in FreeTexts }
  \cup
  { GroundDto(od[1], od[2], km, NoLatLng, NoLatLng) : od \in CityPairs, km \in TierMetres }
  \cup ConflictRequests

\* requests whose assumptions come from every distance strategy and from
\* both kinds of domestic parcel lane
LineRequests ==
  { GroundDto("Ikeja", "Kano", NoNum, NoLatLng, NoLatLng),
    GroundDto("Kano", "Sokoto", NoNum, NoLatLng, NoLatLng),
    GroundDto("Lagos", "Kano", NoNum, NoLatLng, NoLatLng),
    GroundDto("Lagos", "Ogun", NoNum, NoLatLng, NoLatLng),
    GroundDto("Lagos", "Kano", 1000 * 1000, NoLatLng, NoLatLng),
    Dto(Undef, "parcel", "Ogun", "Kano", 10 * 1000, NoDims, NoNum, Undef, NoNum,
        NoLatLng, NoLatLng, Undef, NoNum),
    Dto(Undef, "parcel", "Lagos", "Kano", 10 * 1000, NoDims, NoNum, Undef, NoNum,
        NoLatLng, NoLatLng, Undef, NoNum) }
  \cup
  { Dto(Undef, mode, "China", d, w, NoDims, NoNum, "40hc", NoNum, NoLatLng, NoLatLng,
        Undef, NoNum) :
      mode \in {"parcel", "air", "ocean"}, d \in {"Kano", "London"}, w \in {10 * 1000, 50123} }
  \cup
  { Dto(t, Undef, Undef, Undef, NoNum, NoDims, NoNum, Undef, NoNum, NoLatLng, NoLatLng,
        Undef, NoNum) : t \in FreeTexts }

\* ground requests served concurrently: two of one cache key, one that needs
\* geocoding
RaceRequests ==
  { GroundDto("Lagos", "Kano", NoNum, NoLatLng, NoLatLng),
    GroundDto("Ikeja", "Kano", NoNum, NoLatLng, NoLatLng) }

\* ------------------------------------------------------------------------
\* Specifications
\* ------------------------------------------------------------------------
\* concurrent ground requests, providers that may fail on any call
Next ==
  \/ \E s \in Slots, dto \in RaceRequests : EstimateBegin(s, dto)
  \/ \E s \in Slots : GeocodeReply(s)
  \/ \E s \in Slots : RouteReply(s)
  \/ \E s \in Slots : EstimateResume(s)
  \/ \E s \in Slots : Return(s)

InitRace == Init /\ ~env.steady

Spec == InitRace /\ [][Next]_vars

\* one request at a time, providers that answer every call, time passing
NextCache ==
  \/ Tick
  \/ \E dto \in GroundRequests : EstimateBegin("s1", dto)
  \/ GeocodeReply("s1")
  \/ RouteReply("s1")
  \/ EstimateResume("s1")
  \/ Return("s1")

InitCache == Init /\ env.steady

SpecCache == InitCache /\ [][NextCache]_vars

\* requests of every mode, one at a time, no provider configured
NextQuote ==
  \/ \E dto \in QuoteRequests : EstimateBegin("s1", dto)
  \/ EstimateResume("s1")
  \/ Return("s1")

InitQuote == Init /\ env.steady /\ ~env.liqKey /\ ~env.orsKey

SpecQuote == InitQuote /\ [][NextQuote]_vars

\* requests of every mode, one at a time, providers that answer every call,
\* under every configuration of the provider keys
NextLines ==
  \/ \E dto \in LineRequests : EstimateBegin("s1", dto)
  \/ GeocodeReply("s1")
  \/ RouteReply("s1")
  \/ EstimateResume("s1")
  \/ Return("s1")

SpecLines == InitCache /\ [][NextLines]_vars

\* the bodies of POST /shipments the model draws from
ShipmentDtos ==
  { CreateShipmentDto(c, p, pc, d) :
      c \in {"c1", "c0"}, p \in {Undef, "Lagos"}, pc \in {Undef, "Kano"}, d \in {" ", "Kano"} }

\* concurrent create and updateStatus calls
NextShipments ==
  \/ \E k \in CallSlots, dto \in ShipmentDtos : CreateBegin(k, dto)
  \/ \E k \in CallSlots : CreateValidated(k)
  \/ \E k \in CallSlots : CreateShipmentInserted(k)
  \/ \E k \in CallSlots, id \in ShipmentIds, status \in UpdateStatuses :
        UpdateStatusBegin(k, id, status)
  \/ \E k \in CallSlots : UpdateStatusFound(k)
  \/ \E k \in CallSlots : UpdateStatusUpdated(k)
  \/ \E k \in CallSlots : HistoryInserted(k)
  \/ \E k \in CallSlots : CallSettled(k)

InitShipments == Init /\ env = [liqKey |-> FALSE, orsKey |-> FALSE, steady |-> TRUE]

SpecShipments == InitShipments /\ [][NextShipments]_vars

\* concurrent assignDriver calls for rows that exist and for ids that do not
NextAssign ==
  \/ \E k \in CallSlots, shipmentId \in ShipmentRows \cup {"sh0"},
         driverId \in DriverIds \cup {"d0", ""} :
        AssignDriverBegin(k, shipmentId, driverId)
  \/ \E k \in CallSlots : AssignDriverShipmentFound(k)
  \/ \E k \in CallSlots : AssignDriverDriverFound(k)
  \/ \E k \in CallSlots : AssignDriverCommitted(k)
  \/ \E k \in CallSlots : AssignSettled(k)

SpecAssign == InitShipments /\ [][NextAssign]_vars

\* ground requests that between them end in every strategy
OrderRequests ==
  RaceRequests \cup { GroundDto("Kano", "Sokoto", NoNum, NoLatLng, NoLatLng),
                      GroundDto("Ikeja", "Sokoto", NoNum, NoLatLng, NoLatLng),
                      GroundDto("Ikeja", "Kano", NoNum, IkejaLL, KanoLL) }

\* one request at a time, providers that may fail on any call
NextOrder ==
  \/ \E dto \in OrderRequests : EstimateBegin("s1", dto)
  \/ GeocodeReply("s1")
  \/ RouteReply("s1")
  \/ EstimateResume("s1")
  \/ Return("s1")

SpecOrder == InitRace /\ [][NextOrder]_vars

\* two requests of one cache key that resolve to different distances
OverlapRequests ==
  { GroundDto("Lagos", "Kano", NoNum, NoLatLng, NoLatLng),
    GroundDto("Lagos", "Kano", NoNum, AbujaLL, KanoLL) }

\* concurrent requests of one cache key while time passes, LocationIQ answering
NextOverlap ==
  \/ Tick
  \/ \E s \in Slots, dto \in OverlapRequests : EstimateBegin(s, dto)
  \/ \E s \in Slots : RouteReply(s)
  \/ \E s \in Slots : EstimateResume(s)
  \/ \E s \in Slots : Return(s)

InitOverlap == Init /\ env = [liqKey |-> TRUE, orsKey |-> FALSE, steady |-> TRUE]

SpecOverlap == InitOverlap /\ [][NextOverlap]_vars

\* the return values of resolveNigeriaCity, and a place name of each
CanonicalCities ==
  {"lagos", "abuja", "kano", "ph", "abeokuta", "ibadan", "benin", "warri",
   "enugu", "owerri", "calabar", "kaduna", "jos", "maiduguri", "sokoto"}

LaneCities == (CanonicalCities \ {"benin"}) \cup {"benin city"}

\* domestic parcels between every two cities of the lane tables, in both
\* directions, and ground requests of the lanes no coordinates are known for
LaneRequests ==
  { Dto(Undef, "parcel", o, d, 50123, NoDims, NoNum, Undef, NoNum, NoLatLng, NoLatLng,
        Undef, NoNum) : o \in LaneCities, d \in LaneCities }
  \cup
  { GroundDto(p[1], p[2], NoNum, NoLatLng, NoLatLng) :
      p \in {<<"kano", "sokoto">>, <<"sokoto", "kano">>,
              <<"kano", "maiduguri">>, <<"maiduguri", "kano">>} }

NextLanes ==
  \/ \E dto \in LaneRequests : EstimateBegin("s1", dto)
  \/ EstimateResume("s1")
  \/ Return("s1")

SpecLanes == InitQuote /\ [][NextLanes]_vars

\* requests that reach the distance resolution next to requests that do not:
\* other modes, a ground request with its own distance, the same place twice
FrameRequests ==
  { GroundDto("Lagos", "Kano", NoNum, NoLatLng, NoLatLng),
    GroundDto("Lagos", "Kano", 0, NoLatLng, NoLatLng),
    GroundDto("Ikeja", "Kano", NoNum, NoLatLng, NoLatLng),
    GroundDto("Ikeja", "Kano", 700 * 1000, NoLatLng, NoLatLng),
    GroundDto("Lagos", "Kano", 1000 * 1000, NoLatLng, NoLatLng),
    GroundDto(" LAGOS ", "Kano", 250 * 1000, AbujaLL, KanoLL),
    GroundDto("Lagos", " LAGOS ", NoNum, NoLatLng, NoLatLng),
    GroundDto("Kano", "Kano", 1000 * 1000, LagosLL, KanoLL),
    GroundDto(Undef, "Kano", NoNum, NoLatLng, NoLatLng),
    GroundDto(Undef, "Kano", NoNum, LagosLL, KanoLL),
    Dto(Undef, "parcel", "Lagos", "Kano", 10 * 1000, NoDims, NoNum, Undef, NoNum,
        NoLatLng, NoLatLng, Undef, NoNum),
    Dto(Undef, "air", "Lagos", "Kano", 50123, NoDims, NoNum, Undef, NoNum,
        LagosLL, KanoLL, Undef, NoNum),
    Dto(Undef, "ocean", "Lagos", "Kano", NoNum, NoDims, NoNum, "40hc", NoNum,
        NoLatLng, NoLatLng, Undef, NoNum),
    Dto(Undef, Undef, "Lagos", "Kano", NoNum, NoDims, NoNum, Undef, NoNum,
        NoLatLng, NoLatLng, Undef, NoNum),
    Dto("Ocean shipment from China to Lagos", Undef, Undef, Undef, NoNum, NoDims, NoNum,
        Undef, NoNum, NoLatLng, NoLatLng, Undef, NoNum) }

\* one request at a time under every configuration of the provider keys,
\* time passing
NextFrame ==
  \/ Tick
  \/ \E dto \in FrameRequests : EstimateBegin("s1", dto)
  \/ GeocodeReply("s1")
  \/ RouteReply("s1")
  \/ EstimateResume("s1")
  \/ Return("s1")

SpecFrame == InitCache /\ [][NextFrame]_vars

\* distances inside every tier, at the tier limits and one metre above them
InterCityMetres ==
  TierMetres \cup { 1, 50 * 1000, 200 * 1000, 200 * 1000 + 1, 450 * 1000, 599999,
                    1000 * 1000, 1000 * 1000 + 1 }

\* inter-city ground requests that differ in distance only, and two that
\* leave the distance to the lane table
TierRequests ==
  { GroundDto(od[1], od[2], km, NoLatLng, NoLatLng) :
      od \in {<<"Lagos", "Abuja">>, <<"Abuja", "Lagos">>, <<"Lagos", "Kano">>,
               <<"China", "Kano">>},
      km \in InterCityMetres }
  \cup { GroundDto("kano", "sokoto", NoNum, NoLatLng, NoLatLng),
         GroundDto("kano", "maiduguri", NoNum, NoLatLng, NoLatLng) }

NextTiers ==
  \/ \E dto \in TierRequests : EstimateBegin("s1", dto)
  \/ EstimateResume("s1")
  \/ Return("s1")

SpecTiers == InitQuote /\ [][NextTiers]_vars

\* one request at a time, providers that may fail or stay silent, timers
NextTimeout ==
  \/ Elapse
  \/ \E dto \in RaceRequests : EstimateBeginEarly("s1", dto)
  \/ GeocodeReplyInTime("s1")
  \/ RouteReplyInTime("s1")
  \/ ProviderTimeout("s1")
  \/ EstimateResume("s1")
  \/ Return("s1")

InitTimeout == Init /\ ~env.steady

\* the clock runs, a due timer callback runs, and an invocation whose await
\* has settled does not stay at its resumption point for ever (the event loop
\* runs the continuation); that a provider ever answers is not assumed
SpecTimeout ==
  /\ InitTimeout
  /\ [][NextTimeout]_vars
  /\ WF_vars(Elapse)
  /\ WF_vars(ProviderTimeout("s1"))
  /\ []<>(inv["s1"].pc # "resume")

\* ------------------------------------------------------------------------
\* Properties of the responses
\* ------------------------------------------------------------------------
\* the invocations that have returned
Returned == {s \in Slots : inv[s].pc = "done"}

\* the origin and destination a request comes to: the explicit field, else the
\* value extracted from freeText; trimmed and lower-cased
GivenOrigin(dto) ==
  IF dto.origin # Undef THEN dto.origin
  ELSE IF dto.freeText = Undef THEN ""
  ELSE Coalesce(extractFromText(dto.freeText).origin, "")

GivenDestination(dto) ==
  IF dto.destination # Undef THEN dto.destination
  ELSE IF dto.freeText = Undef THEN ""
  ELSE Coalesce(extractFromText(dto.freeText).destination, "")

Normal(s) == ToLowerCase(Trim(s))

SamePlace(dto) ==
  /\ Normal(GivenOrigin(dto)) # ""
  /\ Normal(GivenOrigin(dto)) = Normal(GivenDestination(dto))

\* C1: a request whose origin and destination are both non-empty and equal
\* after trimming and lower-casing is answered with status error and no quote,
\* whatever its mode and other fields.
C1_SameLocationIsError ==
  \A s \in Returned :
    SamePlace(inv[s].dto) =>
      /\ inv[s].resp.status = "error"
      /\ inv[s].resp.keys = {"message"}
      /\ inv[s].resp.quote = NoQuote

\* a same-location request with differing spelling and with no mode and no
\* weight has been answered
C1_Witness ==
  \E s \in Returned :
    /\ SamePlace(inv[s].dto)
    /\ inv[s].dto.origin # inv[s].dto.destination
    /\ inv[s].dto.mode = Undef
    /\ inv[s].dto.weightKg = NoNum
    /\ inv[s].resp.status = "error"

\* the required fields of the request's mode that are missing, the distance
\* being the one left after resolution
RequiredMissing(req) ==
     {f \in {"origin"} : req.origin = Undef}
  \cup {f \in {"destination"} : req.destination = Undef}
  \cup {f \in {"weightKg"} : req.mode \in {"parcel", "air"} /\ req.weightKg <= 0}
  \cup {f \in {"containerType"} : req.mode = "ocean" /\ req.containerType = Undef}
  \cup {f \in {"distanceKm"} : req.mode = "ground" /\ req.distanceKm <= 0}

NoDuplicates(q) == \A i, j \in 1..Len(q) : q[i] = q[j] => i = j

MissingFieldsExact(c) ==
  /\ RequiredMissing(c.req) # {} =>
        /\ SeqRange(c.resp.missingFields) = RequiredMissing(c.req)
        /\ NoDuplicates(c.resp.missingFields)
  /\ c.resp.missingFields = << >> <=> c.resp.status = "ok"

\* C2 as stated: for every request with a resolvable mode, missingFields is
\* exactly the missing required fields of the mode, without duplicates, and is
\* empty if and only if the status is ok.
C2_AsStated ==
  \A s \in Returned : inv[s].req.mode # Undef => MissingFieldsExact(inv[s])

\* C2: for every request with a resolvable mode that is not rejected as a
\* same-location request, missingFields is exactly the missing required fields
\* of the mode, without duplicates, and is empty if and only if the status is ok.
C2_MissingFieldsExact ==
  \A s \in Returned :
    inv[s].req.mode # Undef /\ ~SamePlace(inv[s].dto) => MissingFieldsExact(inv[s])

\* an ocean request with neither destination nor container type has been
\* answered with those two fields
C2_Witness ==
  \E s \in Returned :
    /\ inv[s].req.mode = "ocean"
    /\ ~SamePlace(inv[s].dto)
    /\ RequiredMissing(inv[s].req) = {"destination", "containerType"}
    /\ inv[s].resp.status = "needs_clarification"
    /\ Len(inv[s].resp.missingFields) = 2

Abs(n) == IF n < 0 THEN 0 - n ELSE n

\* C3: in every ok response the total is base + surcharges + margin to the
\* precision of the rounded amounts: the two differ by at most one hundredth.
C3_TotalIsSum ==
  \A s \in Returned :
    inv[s].resp.status = "ok" =>
      Abs(inv[s].resp.quote.breakdown.total
          - (inv[s].resp.quote.breakdown.base
             + inv[s].resp.quote.breakdown.surcharges
             + inv[s].resp.quote.breakdown.margin)) <= 1

\* an ok response whose rounded amounts do not add up exactly
C3_Witness ==
  \E s \in Returned :
    /\ inv[s].resp.status = "ok"
    /\ inv[s].resp.quote.breakdown.margin > 0
    /\ inv[s].resp.quote.breakdown.total
         # inv[s].resp.quote.breakdown.base
           + inv[s].resp.quote.breakdown.surcharges
           + inv[s].resp.quote.breakdown.margin

\* the documented defaults
DefaultMarginPct(mode) ==
  CASE mode = "parcel" -> Dec(275, 3)
    [] mode = "ocean"  -> Dec(2, 1)
    [] mode = "air"    -> Dec(25, 2)
    [] mode = "ground" -> Dec(4, 1)

\* the amounts of a request after inflationFactor x marketMultiplier[mode]
Multiplied(amount, mode) ==
  DecMul(amount, DecMul(inflation2026, marketMultiplierByMode(mode)))

ExpectedMargin(req) ==
  Round2(DecMul(DecAdd(Multiplied(ModeAmounts(req.mode, req).base, req.mode),
                       Multiplied(ModeAmounts(req.mode, req).sur, req.mode)),
                DefaultMarginPct(req.mode)))

\* C4: in every ok response the margin is (base + surcharges) x the mode's
\* margin percent, base and surcharges being the amounts after the multiplier,
\* reported like every amount rounded to hundredths.
C4_MarginFormula ==
  \A s \in Returned :
    inv[s].resp.status = "ok" =>
      inv[s].resp.quote.breakdown.margin = ExpectedMargin(inv[s].req)

\* an ok ocean response with a positive surcharge part in its margin
C4_Witness ==
  \E s \in Returned :
    /\ inv[s].resp.status = "ok"
    /\ inv[s].req.mode = "ocean"
    /\ inv[s].resp.quote.breakdown.surcharges > 0
    /\ inv[s].resp.quote.breakdown.margin = ExpectedMargin(inv[s].req)

\* max(actual, volumetric) of an air request, in kg
MaxWeight(req) == ChargeableKg(req, volumeDivisorAir)

\* C5 as stated: an ok air quote has chargeableWeightKg of at least 45 kg, and
\* of exactly max(actual, volumetric) when that is at least 45 kg.
C5_AsStated ==
  \A s \in Returned :
    inv[s].resp.status = "ok" /\ inv[s].req.mode = "air" =>
      /\ inv[s].resp.quote.chargeableWeightKg >= 45 * 100
      /\ ~DecLess(MaxWeight(inv[s].req), Whole(45)) =>
            DecEq(Dec(inv[s].resp.quote.chargeableWeightKg, 2), MaxWeight(inv[s].req))

\* C5: an ok air quote has chargeableWeightKg of at least 45 kg, and of
\* max(actual, volumetric) rounded to hundredths when that is at least 45 kg.
C5_ChargeableWeight ==
  \A s \in Returned :
    inv[s].resp.status = "ok" /\ inv[s].req.mode = "air" =>
      /\ inv[s].resp.quote.chargeableWeightKg >= 45 * 100
      /\ ~DecLess(MaxWeight(inv[s].req), Whole(45)) =>
            inv[s].resp.quote.chargeableWeightKg = Round2(MaxWeight(inv[s].req))

\* an ok air quote for 50.123 kg, reported as 50.12 kg
C5_Witness ==
  \E s \in Returned :
    /\ inv[s].resp.status = "ok"
    /\ inv[s].req.mode = "air"
    /\ inv[s].req.weightKg = 50123
    /\ inv[s].req.dimensionsCm = NoDims
    /\ inv[s].req.volumeCbm = NoNum
    /\ inv[s].resp.quote.chargeableWeightKg = 5012

\* an ok air quote raised to the minimum: actual and volumetric both below it
C5_FloorWitness ==
  \E s \in Returned :
    /\ inv[s].resp.status = "ok"
    /\ inv[s].req.mode = "air"
    /\ DecLess(MaxWeight(inv[s].req), Whole(45))
    /\ inv[s].resp.quote.chargeableWeightKg = 45 * 100

\* ------------------------------------------------------------------------
\* Properties of the distance cache and of the providers
\* ------------------------------------------------------------------------
RouteProvider(c) == IF c.pc = "routeLocationIq" THEN "locationiq" ELSE "openroute"

\* resolveDistanceKm run to its return with providers that answer every call
RECURSIVE ResolvedSteadily(_)
ResolvedSteadily(c) ==
  IF c.pc \in {"geocodeOrigin", "geocodeDestination"}
    THEN ResolvedSteadily(AfterGeocode(c, GeocodeAnswer(GeocodeQuery(c))))
  ELSE IF c.pc \in {"routeLocationIq", "routeOpenRoute"}
    THEN ResolvedSteadily(AfterRoute(c, RouteAnswer(RouteProvider(c), c.start, c.end)))
  ELSE c

\* the invocation of an engine that has no distance cache, once returned
Finished(c) == IF c.pc = "resume" THEN Resumed(c) ELSE c

Uncached(dto) == Finished(ResolvedSteadily(BegunWith(Started(dto, 0), FALSE)))

Amounts(resp) ==
  <<resp.status, resp.quote.breakdown.base, resp.quote.breakdown.surcharges,
    resp.quote.breakdown.margin, resp.quote.breakdown.total>>

\* C6 as stated: with providers that answer deterministically, every response
\* has the status and the breakdown amounts that an engine without the distance
\* cache returns for the same request, explicit start/end coordinates included.
C6_CacheTransparent ==
  \A s \in Returned : Amounts(inv[s].resp) = Amounts(Uncached(inv[s].dto).resp)

\* a cache hit priced a ground request that carries no coordinates differently
\* from an engine without cache
C6_Divergence ==
  \E s \in Returned :
    /\ inv[s].lookup = "hit"
    /\ ~inv[s].dto.start.ok
    /\ ~inv[s].dto.end.ok
    /\ inv[s].resp.status = "ok"
    /\ Uncached(inv[s].dto).resp.status = "ok"
    /\ inv[s].resp.quote.breakdown.total # Uncached(inv[s].dto).resp.quote.breakdown.total

\* C7 as stated: once a ground estimate without explicit distance has resolved
\* a distance for a normalized origin/destination pair, a later such estimate
\* for the pair that starts before the entry expires uses the identical
\* distanceKm and makes no provider call.
C7_CacheIdempotent ==
  \A s \in Returned :
    inv[s].after =>
      /\ inv[s].req.distanceKm = firstResolved.distanceKm
      /\ inv[s].calls = 0

\* a later estimate for the pair, started within the TTL, used another distance
C7_Divergence ==
  \E s \in Returned :
    /\ inv[s].after
    /\ inv[s].lookup = "hit"
    /\ inv[s].req.distanceKm # firstResolved.distanceKm

\* C8: when resolveDistanceKm returns null for a ground request, estimate
\* returns needs_clarification with distanceKm among the missing fields, without
\* a quote, and the cache is left as it was.
C8_UnresolvedDistance ==
  [][\A s \in Slots :
       inv[s].pc = "resume" /\ ~inv[s].resolved.found /\ inv'[s] # inv[s] =>
         /\ inv'[s].pc = "done"
         /\ inv'[s].resp.status = "needs_clarification"
         /\ "distanceKm" \in SeqRange(inv'[s].resp.missingFields)
         /\ inv'[s].resp.quote = NoQuote
         /\ inv'[s].resp.keys = {"message", "missingFields"}
         /\ distanceCache' = distanceCache]_vars

\* a ground request whose geocoding call failed and for which no strategy was
\* left has been answered
C8_Witness ==
  \E s \in Returned :
    /\ inv[s].req.mode = "ground"
    /\ inv[s].req.origin # Undef /\ inv[s].req.destination # Undef
    /\ inv[s].lookup = "miss"
    /\ inv[s].calls = 1
    /\ inv[s].reply.failed
    /\ ~inv[s].resolved.found
    /\ inv[s].resp.status = "needs_clarification"
    /\ ~CacheHas(KeyOf(inv[s].req))

\* C9 as stated: a provider call whose fetch failed (network error, abort,
\* non-2xx status, malformed payload) yields no result, and no response has
\* status error after provider calls.
C9_FailureIsNoResult ==
  /\ \A s \in Slots : inv[s].reply.failed => ~inv[s].reply.result
  /\ \A s \in Returned : inv[s].calls > 0 => inv[s].resp.status # "error"

\* a geocoding call that failed has left coordinates behind
C9_Divergence ==
  \E s \in Slots :
    /\ inv[s].reply.call = "geocodeOrigin"
    /\ inv[s].reply.failed
    /\ inv[s].start = ZeroLL

Pending(s) == TimerArmed(inv[s])

\* C11: a provider call is never pending past its timeout of 8000 ms; when the
\* timer runs the call counts as no result, no error is returned because of
\* it, resolution moves on to the next provider call or to the fallbacks, and
\* every invocation that began returns a response.
C11_TimeoutIsSoftFailure ==
  /\ [](\A s \in Slots : Pending(s) => now <= inv[s].sent + timeoutMs)
  /\ [][\A s \in Slots :
          TimerDue(inv[s]) /\ inv'[s] # inv[s] =>
            /\ inv'[s].reply.call = inv[s].pc
            /\ inv'[s].reply.timedOut
            /\ ~inv'[s].reply.result
            /\ inv'[s].pc # inv[s].pc
            /\ inv'[s].pc \in {"geocodeDestination", "routeLocationIq",
                               "routeOpenRoute", "resume"}
            /\ inv'[s].pc = "resume" => inv'[s].resolved = Fallback(inv'[s])]_vars
  /\ \A s \in Slots : (inv[s].pc # "idle") ~> (inv[s].pc = "done")

\* both routing providers stayed silent until their timers ran, and the request
\* was answered with a quote on the haversine distance
C11_Witness ==
  \E s \in Returned :
    /\ inv[s].calls = 2
    /\ inv[s].reply.call = "routeOpenRoute"
    /\ inv[s].reply.timedOut
    /\ now >= inv[s].now0 + 2 * timeoutMs
    /\ inv[s].resolved.source = "haversine"
    /\ inv[s].resp.status = "ok"

\* ------------------------------------------------------------------------
\* Properties of the response shape
\* ------------------------------------------------------------------------
\* C12: every response has exactly one variant populated: ok carries a quote
\* and no missingFields; needs_clarification carries a non-empty missingFields
\* and no quote; error carries a message and neither quote nor missingFields.
C12_OneVariant ==
  \A s \in Returned :
    /\ inv[s].resp.status \in {"ok", "needs_clarification", "error"}
    /\ inv[s].resp.status = "ok" =>
          /\ "quote" \in inv[s].resp.keys
          /\ inv[s].resp.quote # NoQuote
          /\ "missingFields" \notin inv[s].resp.keys
          /\ inv[s].resp.missingFields = << >>
    /\ inv[s].resp.status = "needs_clarification" =>
          /\ "missingFields" \in inv[s].resp.keys
          /\ inv[s].resp.missingFields # << >>
          /\ "quote" \notin inv[s].resp.keys
          /\ inv[s].resp.quote = NoQuote
    /\ inv[s].resp.status = "error" =>
          /\ "message" \in inv[s].resp.keys
          /\ inv[s].resp.message # ""
          /\ inv[s].resp.keys \cap {"quote", "missingFields"} = {}
          /\ inv[s].resp.quote = NoQuote
          /\ inv[s].resp.missingFields = << >>

\* a parcel request without weight and destination has been answered with a
\* clarification of two fields and no quote
C12_Witness ==
  \E s \in Returned :
    /\ inv[s].req.mode = "parcel"
    /\ inv[s].resp.status = "needs_clarification"
    /\ inv[s].resp.keys = {"message", "missingFields"}
    /\ inv[s].resp.missingFields = <<"destination", "weightKg">>

\* the order in which estimate pushes the missing fields
FieldOrder == <<"mode", "origin", "destination", "weightKg", "containerType", "distanceKm">>

InFieldOrder(q) ==
  \A i, j \in 1..Len(q) :
    i < j => \E m, n \in 1..Len(FieldOrder) :
               m < n /\ FieldOrder[m] = q[i] /\ FieldOrder[n] = q[j]

\* C13 as stated: with providers that answer deterministically, a request is
\* answered with the same missing fields in the same order whatever was served
\* before and whatever the distance cache holds: the list is the one a fresh
\* engine returns for the request, and follows the order mode, origin,
\* destination, weightKg / containerType / distanceKm.
C13_MissingFieldsDeterministic ==
  \A s \in Returned :
    /\ inv[s].resp.missingFields = Uncached(inv[s].dto).resp.missingFields
    /\ InFieldOrder(inv[s].resp.missingFields)

\* a ground request that a fresh engine answers with distanceKm missing has
\* been answered with a quote from a cache entry left by another request
C13_Divergence ==
  \E s \in Returned :
    /\ inv[s].lookup = "hit"
    /\ ~inv[s].dto.start.ok /\ ~inv[s].dto.end.ok
    /\ inv[s].resp.status = "ok"
    /\ inv[s].resp.missingFields = << >>
    /\ Uncached(inv[s].dto).resp.status = "needs_clarification"
    /\ Uncached(inv[s].dto).resp.missingFields = <<"distanceKm">>

\* ------------------------------------------------------------------------
\* Properties of the ground rate
\* ------------------------------------------------------------------------
\* origin and destination resolve to the same recognized Nigerian city
SameCity(req) ==
  /\ resolveNigeriaCity(req.origin) # ""
  /\ resolveNigeriaCity(req.origin) = resolveNigeriaCity(req.destination)

FlatRate(city) ==
  CASE city = "lagos" -> 350 [] city = "abuja" -> 300 [] city = "kano" -> 280
    [] city = "ph" -> 300 [] OTHER -> 250

\* the distance in metres
TieredRate(m) ==
  IF m <= 100 * 1000 THEN 350
  ELSE IF m <= 300 * 1000 THEN 300
  ELSE IF m <= 600 * 1000 THEN 260
  ELSE 230

\* the base of a ground quote at a per-km rate, reported in hundredths
GroundBase(m, perKm) ==
  Round2(DecMul(DecMul(Metres(m), Whole(perKm)), multiplier("ground")))

\* C14: a ground quote is priced at the flat intra-city rate exactly when
\* origin and destination resolve to the same recognized Nigerian city, at the
\* distance-tiered rate in every other case; the assumptions name the branch;
\* Lagos to Kano with distanceKm 1000 is priced at the tiered 230 per km.
C14_GroundRateBranch ==
  \A s \in Returned :
    inv[s].resp.status = "ok" /\ inv[s].req.mode = "ground" =>
      /\ SameCity(inv[s].req) =>
            /\ inv[s].resp.quote.breakdown.base =
                 GroundBase(inv[s].req.distanceKm,
                            FlatRate(resolveNigeriaCity(inv[s].req.origin)))
            /\ "Nigeria intra-city trucking"
                 \in SeqRange(inv[s].resp.quote.breakdown.assumptions)
            /\ "Nigeria inter-city trucking"
                 \notin SeqRange(inv[s].resp.quote.breakdown.assumptions)
      /\ ~SameCity(inv[s].req) =>
            /\ inv[s].resp.quote.breakdown.base =
                 GroundBase(inv[s].req.distanceKm, TieredRate(inv[s].req.distanceKm))
            /\ "Nigeria inter-city trucking"
                 \in SeqRange(inv[s].resp.quote.breakdown.assumptions)
            /\ "Nigeria intra-city trucking"
                 \notin SeqRange(inv[s].resp.quote.breakdown.assumptions)
      /\ inv[s].req.origin = "Lagos" /\ inv[s].req.destination = "Kano"
           /\ inv[s].req.distanceKm = 1000 * 1000 =>
            inv[s].resp.quote.breakdown.base = GroundBase(1000 * 1000, 230)

\* a ground quote within Lagos over 600.001 km at the flat 350 per km, where
\* the tiers would give 230
C14_Witness ==
  \E s \in Returned :
    /\ inv[s].resp.status = "ok"
    /\ inv[s].req.mode = "ground"
    /\ inv[s].req.origin # inv[s].req.destination
    /\ resolveNigeriaCity(inv[s].req.origin) = "lagos"
    /\ resolveNigeriaCity(inv[s].req.destination) = "lagos"
    /\ inv[s].req.distanceKm = 600 * 1000 + 1
    /\ inv[s].resp.quote.breakdown.base = GroundBase(600 * 1000 + 1, 350)
    /\ inv[s].resp.quote.breakdown.base # GroundBase(600 * 1000 + 1, 230)

\* the ground quote of the test: Lagos to Kano, 1000 km from the free text
C14_TieredWitness ==
  \E s \in Returned :
    /\ inv[s].dto.freeText = "Truck from Lagos to Kano 1000km"
    /\ inv[s].resp.status = "ok"
    /\ inv[s].resp.quote.breakdown.base = GroundBase(1000 * 1000, 230)

\* ------------------------------------------------------------------------
\* Properties of the merge of explicit fields and free text
\* ------------------------------------------------------------------------
\* an explicit place as the request uses it: trimmed, absent when empty
Place(v) == IF Trim(v) = "" THEN Undef ELSE Trim(v)

ModeOrder == <<"parcel", "air", "ocean", "ground">>

Keywords(mode) ==
  CASE mode = "parcel" -> {"dhl", "fedex", "ups", "parcel", "express"}
    [] mode = "air"    -> {"air", "iata", "airport"}
    [] mode = "ocean"  -> {"ocean", "sea", "container", "fcl", "lcl", "ship", "vessel", "port"}
    [] mode = "ground" -> {"truck", "trucking", "ground", "ltl", "road", "interstate",
                           "intrastate"}

\* the categories a text matches, as positions of ModeOrder
Matching(text) ==
  {i \in 1..Len(ModeOrder) : SeqRange(Tokens(text)) \cap Keywords(ModeOrder[i]) # {}}

\* the first matching category, Undef when none matches
FirstMatch(text) ==
  IF Matching(text) = {} THEN Undef
  ELSE ModeOrder[CHOOSE i \in Matching(text) : \A j \in Matching(text) : i <= j]

\* the mode the claim gives a request
ClaimedMode(dto) ==
  IF dto.mode # Undef THEN dto.mode
  ELSE IF dto.freeText = Undef THEN Undef
  ELSE FirstMatch(dto.freeText)

EffectiveModeAsClaimed(c) ==
  /\ c.req.mode = ClaimedMode(c.dto)
  /\ c.resp.status = "ok" => c.resp.quote.mode = ClaimedMode(c.dto)
  /\ ClaimedMode(c.dto) # Undef => "mode" \notin SeqRange(c.resp.missingFields)

\* C16 as stated: the effective mode is the explicit mode if given, otherwise
\* the first keyword category matching freeText in the order parcel, air,
\* ocean, ground; when no category matches, 'mode' is reported as a missing
\* field.
C16_AsStated ==
  \A s \in Returned :
    /\ EffectiveModeAsClaimed(inv[s])
    /\ ClaimedMode(inv[s].dto) = Undef =>
          /\ inv[s].resp.status = "needs_clarification"
          /\ "mode" \in SeqRange(inv[s].resp.missingFields)

\* C16: the effective mode is the explicit mode if given, otherwise the first
\* keyword category matching freeText in the order parcel, air, ocean, ground;
\* when no category matches, 'mode' is reported as the first missing field,
\* unless the request is rejected as a same-location request.
C16_EffectiveMode ==
  \A s \in Returned :
    /\ EffectiveModeAsClaimed(inv[s])
    /\ ClaimedMode(inv[s].dto) = Undef /\ ~SamePlace(inv[s].dto) =>
          /\ inv[s].resp.status = "needs_clarification"
          /\ inv[s].resp.missingFields # << >>
          /\ inv[s].resp.missingFields[1] = "mode"

\* a free text with an express word and an air word has been quoted as parcel
C16_Witness ==
  \E s \in Returned :
    /\ inv[s].dto.mode = Undef
    /\ inv[s].dto.freeText # Undef
    /\ Matching(inv[s].dto.freeText) = {1, 2}
    /\ inv[s].resp.status = "ok"
    /\ inv[s].resp.quote.mode = "parcel"

\* a free text without any mode keyword has been answered with 'mode' missing
C16_UnresolvedWitness ==
  \E s \in Returned :
    /\ inv[s].dto.mode = Undef
    /\ inv[s].dto.freeText # Undef
    /\ Matching(inv[s].dto.freeText) = {}
    /\ inv[s].resp.status = "needs_clarification"
    /\ inv[s].resp.missingFields = <<"mode">>

\* ------------------------------------------------------------------------
\* Properties of the assumptions
\* ------------------------------------------------------------------------
SourceLines ==
  { "Distance source: cache", "Distance source: locationiq",
    "Distance source: openroute", "Distance source: haversine",
    "Distance source: heuristic" }

ResolutionLines == SourceLines \cup {"Drive time (estimate)"}

\* the caller gave a usable distance, explicitly or in freeText
DistanceSupplied(dto) == FinitePositive(MergeRequest(dto).distanceKm)

\* the line naming the strategy that gave the invocation its distance
StrategyLine(c) ==
  IF c.lookup = "hit" THEN "Distance source: cache" ELSE SourceLine(c.resolved.source)

Has(lines, line) == \E i \in DOMAIN lines : lines[i] = line

\* the resolution lines come first: no other line stands before one of them
ResolutionFirst(lines) ==
  \A i, j \in DOMAIN lines :
    lines[i] \notin ResolutionLines /\ lines[j] \in ResolutionLines => j < i

DomesticParcel(q) == q.mode = "parcel" /\ isNigeria(q.origin) /\ isNigeria(q.destination)

\* C17: the assumptions of every ok quote hold a line for each heuristic,
\* lookup and fallback applied: the 'Distance source' line of the strategy
\* used when the caller gave no ground distance and none when the caller did;
\* the minimum-chargeable line when the air minimum was applied; the lane line
\* or the unmapped-lane line of a domestic parcel; the region line of an air,
\* ocean or international parcel quote; the rate-branch line of a ground
\* quote; and the resolution lines stand before all calculation lines.
C17_AssumptionsTraceable ==
  \A s \in Returned :
    inv[s].resp.status = "ok" =>
      LET q == inv[s].resp.quote
          lines == q.breakdown.assumptions
      IN  /\ q.mode = "ground" /\ ~DistanceSupplied(inv[s].dto) =>
                /\ lines[1] = StrategyLine(inv[s])
                /\ \A i \in DOMAIN lines : lines[i] \in SourceLines => i = 1
          /\ q.mode # "ground" \/ DistanceSupplied(inv[s].dto) =>
                \A i \in DOMAIN lines : lines[i] \notin ResolutionLines
          /\ q.mode = "air" =>
                (Has(lines, "Minimum chargeable weight applied")
                   <=> DecLess(MaxWeight(inv[s].req), Whole(45)))
          /\ DomesticParcel(q) =>
                /\ Has(lines, "Lane") \/ Has(lines, "Lane: unmapped Nigeria route")
                /\ Has(lines, "Lane: unmapped Nigeria route")
                     <=> nigeriaLaneBaseNgn(resolveNigeriaCity(q.origin),
                                            resolveNigeriaCity(q.destination)) = NoNum
          /\ q.mode = "air" \/ (q.mode = "parcel" /\ ~DomesticParcel(q)) =>
                Has(lines, "Origin region | Destination region")
          /\ q.mode = "ocean" => Has(lines, "Origin region | Destination region | Container")
          /\ q.mode = "ground" =>
                Has(lines, "Nigeria intra-city trucking")
                  \/ Has(lines, "Nigeria inter-city trucking")
          /\ ResolutionFirst(lines)

\* a ground quote whose distance came from the static lane table, with the
\* heuristic line first and the calculation lines after it
C17_Witness ==
  \E s \in Returned :
    /\ inv[s].resp.status = "ok"
    /\ inv[s].resp.quote.mode = "ground"
    /\ ~DistanceSupplied(inv[s].dto)
    /\ inv[s].lookup = "miss"
    /\ inv[s].resolved.source = "heuristic"
    /\ inv[s].resp.quote.breakdown.assumptions[1] = "Distance source: heuristic"
    /\ inv[s].resp.quote.breakdown.assumptions[2] = "Estimate only"

\* a ground quote from a routing provider: source line, drive time, then the
\* calculation lines
C17_ProviderWitness ==
  \E s \in Returned :
    /\ inv[s].resp.status = "ok"
    /\ inv[s].resolved.source = "openroute"
    /\ inv[s].resp.quote.breakdown.assumptions[1] = "Distance source: openroute"
    /\ inv[s].resp.quote.breakdown.assumptions[2] = "Drive time (estimate)"
    /\ inv[s].resp.quote.breakdown.assumptions[3] = "Estimate only"

\* a domestic parcel quote on a lane the table does not hold
C17_UnmappedWitness ==
  \E s \in Returned :
    /\ inv[s].resp.status = "ok"
    /\ DomesticParcel(inv[s].resp.quote)
    /\ Has(inv[s].resp.quote.breakdown.assumptions, "Lane: unmapped Nigeria route")

\* ------------------------------------------------------------------------
\* Properties of the rounding
\* ------------------------------------------------------------------------
\* the amounts of a request in a calculation that rounds nothing before the
\* breakdown: the bracket base after the regional adjustment, the ocean
\* premium and the BAF/CAF fee are carried as they are
ReferenceAmounts(req) ==
  IF req.mode = "parcel" /\ ~(isNigeria(req.origin) /\ isNigeria(req.destination))
    THEN LET baseUsd == DecMul(Whole(bracketBaseUsd(ChargeableKg(req, volumeDivisorParcel))),
                               regionalAdj(detectRegion(req.origin)))
         IN  [ base |-> DecMul(baseUsd, Whole(fxUsdToNgn)),
               sur  |-> DecMul(DecMul(baseUsd, Dec(25, 2)), Whole(fxUsdToNgn)) ]
  ELSE IF req.mode = "ocean"
    THEN LET table   == OCEAN_BASE_USD(detectRegion(req.origin),
                                       IF req.containerType = Undef THEN "40ft"
                                       ELSE req.containerType)
             baseUsd == IF isNigeria(req.destination) THEN Whole(table)
                        ELSE DecMul(Whole(table), Dec(115, 2))
             dd      == IF req.detentionDemurrageDays = NoNum
                             \/ req.detentionDemurrageDays <= 0 THEN 0
                        ELSE req.detentionDemurrageDays * 200
             surUsd  == DecAdd(Whole(400 + 100 + dd), DecMul(baseUsd, Dec(75, 3)))
         IN  [ base |-> DecMul(baseUsd, Whole(fxUsdToNgn)),
               sur  |-> DecMul(surUsd, Whole(fxUsdToNgn)) ]
  ELSE [ base |-> ModeAmounts(req.mode, req).base, sur |-> ModeAmounts(req.mode, req).sur ]

\* the four amounts of the reference calculation, rounded at the end
ReferenceBreakdown(req) ==
  LET base     == Multiplied(ReferenceAmounts(req).base, req.mode)
      sur      == Multiplied(ReferenceAmounts(req).sur, req.mode)
      subtotal == DecAdd(base, sur)
      margin   == DecMul(subtotal, DefaultMarginPct(req.mode))
  IN  <<Round2(base), Round2(sur), Round2(margin), Round2(DecAdd(subtotal, margin))>>

Reported(b) == <<b.base, b.surcharges, b.margin, b.total>>

\* C18: the base, surcharges, margin and total of every ok quote equal those
\* of a calculation that carries every intermediate value unrounded and
\* rounds only these four amounts to 2 decimal places.
C18_RoundedOnlyAtOutput ==
  \A s \in Returned :
    inv[s].resp.status = "ok" =>
      Reported(inv[s].resp.quote.breakdown) = ReferenceBreakdown(inv[s].req)

\* an ok ocean quote to a destination outside Nigeria whose reported
\* surcharges are not those of the unrounded calculation
C18_Divergence ==
  \E s \in Returned :
    /\ inv[s].resp.status = "ok"
    /\ inv[s].req.mode = "ocean"
    /\ ~isNigeria(inv[s].req.destination)
    /\ inv[s].resp.quote.breakdown.base = ReferenceBreakdown(inv[s].req)[1]
    /\ inv[s].resp.quote.breakdown.surcharges # ReferenceBreakdown(inv[s].req)[2]

\* ------------------------------------------------------------------------
\* Properties of the shipments
\* ------------------------------------------------------------------------
\* no create or updateStatus call is under way
Quiescent == \A k \in CallSlots : calls[k].pc \in {"idle", "done"}

HistoryOf(id) ==
  LET of(e) == e.shipmentId = id IN SelectSeq(shipmentStatusHistory, of)

\* the status of the most recently created history entry of a shipment
LatestStatus(id) ==
  IF HistoryOf(id) = << >> THEN "none" ELSE HistoryOf(id)[Len(HistoryOf(id))].status

\* C19: a create that succeeded left a PENDING shipment with a first history
\* entry PENDING, an updateStatus that succeeded set the status and appended
\* an entry with it, and whenever all create and updateStatus calls have
\* completed the status of every shipment is the status of its most recently
\* created history entry.
C19_StatusMatchesHistory ==
  /\ \A id \in Rows : HistoryOf(id) # << >> => HistoryOf(id)[1].status = "PENDING"
  /\ Quiescent => \A id \in Rows : shipment[id] = LatestStatus(id)

\* all calls have completed, two updateStatus calls after the create among
\* them, and the status of the shipment is not that of its latest history entry
C19_Divergence ==
  /\ Quiescent
  /\ begun.updateStatus = 2
  /\ \E id \in Rows :
       /\ Len(HistoryOf(id)) = 3
       /\ HistoryOf(id)[1].status = "PENDING"
       /\ shipment[id] # LatestStatus(id)

\* ------------------------------------------------------------------------
\* Properties of the resolution order
\* ------------------------------------------------------------------------
RouteCalls == {"routeLocationIq", "routeOpenRoute"}

\* the step hands the invocation the answer of a routing provider, and the
\* answer is a result
RouteSucceeds(s) ==
  /\ inv[s].pc \in RouteCalls
  /\ inv'[s].pc # inv[s].pc
  /\ inv'[s].reply.call = inv[s].pc
  /\ inv'[s].reply.result

\* the step ends resolveDistanceKm with a distance
Resolves(s) ==
  /\ inv[s].pc \in {"idle", "geocodeOrigin", "geocodeDestination"} \cup RouteCalls
  /\ inv'[s].pc = "resume"
  /\ inv'[s].lookup = "miss"
  /\ inv'[s].resolved.found

\* C20: resolveDistanceKm takes the first success of LocationIQ, OpenRoute,
\* haversine, lane table, in this order: OpenRoute is called only when
\* LocationIQ returned no result; a routing result ends the resolution at
\* once, under the name of its provider; haversine is used only with both
\* coordinates known and no routing result; the lane table only when
\* haversine gave nothing either; and the source names the strategy whose
\* distance is returned.
C20_FirstSuccessWins ==
  [][\A s \in Slots :
       /\ inv[s].pc # "routeOpenRoute" /\ inv'[s].pc = "routeOpenRoute" =>
             \/ inv[s].pc = "routeLocationIq" /\ ~inv'[s].reply.result
             \/ inv[s].pc # "routeLocationIq" /\ ~env.liqKey
       /\ inv[s].pc # "routeLocationIq" /\ inv'[s].pc = "routeLocationIq" =>
             inv[s].pc \in {"idle", "geocodeOrigin", "geocodeDestination"}
       /\ RouteSucceeds(s) =>
             /\ inv'[s].pc = "resume"
             /\ inv'[s].calls = inv[s].calls
             /\ inv'[s].resolved.found
             /\ inv'[s].resolved.source = RouteProvider(inv[s])
       /\ Resolves(s) =>
             LET c == inv'[s]
                 routed == c.reply.call \in RouteCalls /\ c.reply.result
                 gc == c.start.ok /\ c.end.ok /\ haversineKm(c.start, c.end) > 0
             IN  /\ c.resolved.source \in {"locationiq", "openroute"} =>
                       routed /\ c.resolved.source = RouteProvider(inv[s])
                 /\ c.resolved.source = "haversine" =>
                       /\ ~routed /\ c.start.ok /\ c.end.ok
                       /\ c.resolved.distanceKm = haversineKm(c.start, c.end)
                 /\ c.resolved.source = "heuristic" =>
                       /\ ~routed /\ ~gc
                       /\ c.resolved.distanceKm
                            = inferDistanceKm(c.req.origin, c.req.destination)
    ]_vars

\* LocationIQ was asked and returned no result, then OpenRoute was asked and
\* its result became the distance
C20_Witness ==
  \E s \in Slots :
    /\ env.liqKey /\ env.orsKey
    /\ inv[s].pc \in {"resume", "done"}
    /\ inv[s].lookup = "miss"
    /\ inv[s].calls = 2
    /\ inv[s].reply.call = "routeOpenRoute"
    /\ inv[s].reply.result
    /\ inv[s].resolved.source = "openroute"

\* both providers were asked and returned no result, and the great-circle
\* distance of the known coordinates was used
C20_HaversineWitness ==
  \E s \in Slots :
    /\ inv[s].pc \in {"resume", "done"}
    /\ inv[s].calls = 2
    /\ inv[s].reply.call = "routeOpenRoute"
    /\ ~inv[s].reply.result
    /\ inv[s].resolved.source = "haversine"

\* the destination could not be geocoded, so no provider was asked for a route
\* and the lane table gave the distance
C20_LaneWitness ==
  \E s \in Slots :
    /\ env.liqKey
    /\ inv[s].pc \in {"resume", "done"}
    /\ inv[s].reply.call = "geocodeDestination"
    /\ ~inv[s].end.ok
    /\ inv[s].resolved.source = "heuristic"

\* ------------------------------------------------------------------------
\* Properties of the cache under concurrent invocations
\* ------------------------------------------------------------------------
\* the step is the cache lookup of invocation s
LooksUp(s) == inv[s].pc = "idle" /\ inv'[s].pc # "idle" /\ inv'[s].lookup # "none"

\* the step resumes invocation s with a distance
Writes(s) == inv[s].pc = "resume" /\ inv'[s].pc = "done" /\ inv[s].resolved.found

\* C21: concurrent invocations of one cache key need no lock. An invocation
\* that has returned has a response; a quote is priced on the distance its
\* invocation resolved or on an entry that was unexpired at its lookup; every
\* entry was written by a finished resolution, a write replaces whatever entry
\* the key had, and an entry is deleted only by a lookup that finds it expired.
C21_LastWriteWins ==
  [][\A s \in Slots :
       /\ inv'[s].pc = "done" =>
             inv'[s].resp.status \in {"ok", "needs_clarification", "error"}
       /\ LooksUp(s) /\ inv'[s].lookup = "hit" =>
             /\ CacheHas(KeyOf(inv'[s].req))
             /\ CacheGet(KeyOf(inv'[s].req)).expires > now
             /\ inv'[s].req.distanceKm = CacheGet(KeyOf(inv'[s].req)).distanceKm
             /\ distanceCache' = distanceCache
       /\ LooksUp(s) /\ inv'[s].lookup = "expired" =>
             /\ CacheHas(KeyOf(inv'[s].req))
             /\ CacheGet(KeyOf(inv'[s].req)).expires <= now
             /\ distanceCache' = distanceCache \ {CacheGet(KeyOf(inv'[s].req))}
       /\ LooksUp(s) /\ inv'[s].lookup = "miss" => distanceCache' = distanceCache
       /\ Writes(s) =>
             /\ inv'[s].req.distanceKm = inv[s].resolved.distanceKm
             /\ \E e \in distanceCache' :
                  /\ e.key = KeyOf(inv[s].req)
                  /\ e.distanceKm = inv[s].resolved.distanceKm
                  /\ e.expires = inv[s].now0 + CacheTtlMs
                  /\ distanceCache' = {x \in distanceCache : x.key # e.key} \cup {e}
       /\ (\A t \in Slots : ~LooksUp(t) /\ ~Writes(t)) => distanceCache' = distanceCache
    ]_vars

\* two invocations of one key both missed the cache and resolved different
\* distances; the entry is the one of the second writer, not of the first
C21_Witness ==
  /\ inv["s1"].pc = "done" /\ inv["s2"].pc = "done"
  /\ inv["s1"].lookup = "miss" /\ inv["s2"].lookup = "miss"
  /\ inv["s1"].wrote /\ inv["s2"].wrote
  /\ KeyOf(inv["s1"].req) = KeyOf(inv["s2"].req)
  /\ inv["s1"].req.distanceKm # inv["s2"].req.distanceKm
  /\ firstResolved.distanceKm = inv["s1"].req.distanceKm
  /\ CacheGet(KeyOf(inv["s1"].req)).distanceKm = inv["s2"].req.distanceKm

\* an invocation found the entry expired and deleted it while another
\* invocation of the key was resolving
C21_EvictWitness ==
  /\ inv["s1"].lookup = "expired"
  /\ inv["s1"].pc = "routeLocationIq"
  /\ inv["s2"].pc = "routeLocationIq"
  /\ inv["s2"].lookup = "miss"
  /\ ~CacheHas(KeyOf(inv["s1"].req))

\* ------------------------------------------------------------------------
\* Properties of the cache lifecycle
\* ------------------------------------------------------------------------
DayMs == 24 * 60 * 60 * 1000

ResolutionPcs ==
  {"geocodeOrigin", "geocodeDestination", "routeLocationIq", "routeOpenRoute", "resume"}

\* C22: an entry appears only when an invocation resumes with a resolved
\* distance, and expires 24 hours after that invocation began its lookup; a
\* lookup serves the entry of its key exactly when the time is before the
\* expiry; a lookup that finds the entry expired removes it and starts a
\* resolution; nothing else removes an entry.
C22_CacheLifecycle ==
  [][/\ \A e \in distanceCache' \ distanceCache :
          \E s \in Slots :
            /\ Writes(s)
            /\ inv[s].resolved.distanceKm > 0
            /\ e.key = KeyOf(inv[s].req)
            /\ e.distanceKm = inv[s].resolved.distanceKm
            /\ e.expires = inv[s].now0 + DayMs
     /\ \A e \in distanceCache \ distanceCache' :
          \E s \in Slots :
            /\ e.key = KeyOf(inv'[s].req)
            /\ \/ LooksUp(s) /\ inv'[s].lookup = "expired" /\ e.expires <= now
               \/ Writes(s) /\ \E x \in distanceCache' : x.key = e.key
     /\ \A s \in Slots :
          LooksUp(s) =>
            /\ inv'[s].now0 = now
            /\ inv'[s].lookup = "hit" <=>
                  \E e \in distanceCache : e.key = KeyOf(inv'[s].req) /\ now < e.expires
            /\ inv'[s].lookup = "hit" =>
                  /\ inv'[s].pc = "done"
                  /\ inv'[s].calls = 0
                  /\ distanceCache' = distanceCache
            /\ inv'[s].lookup = "expired" <=>
                  \E e \in distanceCache : e.key = KeyOf(inv'[s].req) /\ now >= e.expires
            /\ inv'[s].lookup = "expired" =>
                  /\ \A e \in distanceCache' : e.key # KeyOf(inv'[s].req)
                  /\ inv'[s].pc \in ResolutionPcs
    ]_vars

\* a lookup at the very instant of the expiry found the entry expired and
\* removed it
C22_Witness ==
  \E s \in Slots :
    /\ inv[s].lookup = "expired"
    /\ inv[s].pc \in ResolutionPcs
    /\ firstResolved.set
    /\ firstResolved.key = KeyOf(inv[s].req)
    /\ inv[s].now0 = firstResolved.expires
    /\ ~CacheHas(KeyOf(inv[s].req))

\* an entry written after time passed during the resolution: its expiry is
\* counted from the lookup, so less than 24 hours remain
C22_LateWriteWitness ==
  \E s \in Returned :
    /\ inv[s].wrote
    /\ CacheHas(KeyOf(inv[s].req))
    /\ CacheGet(KeyOf(inv[s].req)).expires = inv[s].now0 + DayMs
    /\ inv[s].now0 < now

\* ------------------------------------------------------------------------
\* Properties of the provider calls
\* ------------------------------------------------------------------------
ProviderPcs == {"geocodeOrigin", "geocodeDestination", "routeLocationIq", "routeOpenRoute"}

\* the place of a call in the order of resolveDistanceKm; 5 once no call is left
StageOf(pc) ==
  CASE pc = "idle" -> 0
    [] pc = "geocodeOrigin" -> 1
    [] pc = "geocodeDestination" -> 2
    [] pc = "routeLocationIq" -> 3
    [] pc = "routeOpenRoute" -> 4
    [] OTHER -> 5

\* C23: no provider call is made twice within an invocation. Every call made
\* stands later in the order geocode origin, geocode destination, LocationIQ
\* route, OpenRoute route than the calls made before it, whatever these
\* returned, so that an invocation makes at most four external calls.
C23_NoRetry ==
  /\ [][\A s \in Slots :
          /\ inv[s].pc \in ProviderPcs /\ inv'[s] # inv[s] =>
                StageOf(inv'[s].pc) > StageOf(inv[s].pc)
          /\ inv[s].pc # "done" /\ inv'[s].calls # inv[s].calls =>
                /\ inv'[s].calls = inv[s].calls + 1
                /\ inv'[s].pc \in ProviderPcs
                /\ StageOf(inv'[s].pc) > StageOf(inv[s].pc)
          /\ inv'[s].pc \in ProviderPcs /\ inv'[s].pc # inv[s].pc =>
                inv'[s].calls = inv[s].calls + 1
       ]_vars
  /\ [](\A s \in Slots : inv[s].calls <= 4 /\ inv[s].calls <= StageOf(inv[s].pc))

\* an invocation that made all four calls, the last two of them without
\* result, and returned
C23_Witness ==
  \E s \in Returned :
    /\ inv[s].calls = 4
    /\ inv[s].reply.call = "routeOpenRoute"
    /\ ~inv[s].reply.result
    /\ inv[s].resp.status \in {"ok", "needs_clarification"}

\* the step sends the call of the given pc for invocation s
Sends(s, pc) == inv[s].pc # pc /\ inv'[s].pc = pc

\* the endpoint has coordinates without geocoding: given, or of a known city
KnownPoint(given, place) == given.ok \/ resolveNigeriaCoords(place).ok

C24_GeocodeWitness ==
  \E s \in Slots :
    /\ env.liqKey
    /\ inv[s].req.origin = "Ikeja"
    /\ ~inv[s].req.start.ok
    /\ inv[s].start = IkejaLL
    /\ inv[s].pc = "routeLocationIq"
    /\ inv[s].calls = 2

\* ------------------------------------------------------------------------
\* C25
\* ------------------------------------------------------------------------
Swapped(dto) == [dto EXCEPT !.origin = dto.destination, !.destination = dto.origin]

\* C25: the lane lookups do not depend on the order of the two cities: for
\* every two canonical cities the parcel lane base and the static lane
\* distance are the same in both directions; and every domestic parcel quote
\* (and every ground quote priced on a static lane distance) has the base,
\* surcharges, margin and total of the request with origin and destination
\* swapped.
C25_LanesOrderInsensitive ==
  /\ \A a \in CanonicalCities, b \in CanonicalCities :
        /\ nigeriaLaneBaseNgn(a, b) = nigeriaLaneBaseNgn(b, a)
        /\ inferDistanceKm(a, b) = inferDistanceKm(b, a)
  /\ \A s \in Returned :
        Amounts(inv[s].resp) = Amounts(Uncached(Swapped(inv[s].dto)).resp)

\* a parcel quoted on a lane that the table holds in the other direction only
C25_Witness ==
  \E s \in Returned :
    /\ DomesticParcel(inv[s].req)
    /\ inv[s].req.origin = "kano" /\ inv[s].req.destination = "lagos"
    /\ <<"kano", "lagos">> \notin DOMAIN NIGERIA_PARCEL_LANES
    /\ inv[s].resp.status = "ok"
    /\ Has(inv[s].resp.quote.breakdown.assumptions, "Lane")
    /\ inv[s].resp.quote.breakdown.base # Uncached(
          Dto(Undef, "parcel", "kano", "owerri", 50123, NoDims, NoNum, Undef, NoNum,
              NoLatLng, NoLatLng, Undef, NoNum)).resp.quote.breakdown.base

\* a ground quote on the static distance of a lane held as kano::sokoto
C25_DistanceWitness ==
  \E s \in Returned :
    /\ inv[s].req.mode = "ground"
    /\ inv[s].req.origin = "sokoto" /\ inv[s].req.destination = "kano"
    /\ inv[s].resp.status = "ok"
    /\ inv[s].resolved.distanceKm = 530 * 1000

\* ------------------------------------------------------------------------
\* C26
\* ------------------------------------------------------------------------
\* C26: in every reachable state every entry of the distance cache holds a
\* finite distance greater than zero and an expiry no later than 24 hours
\* after the current time (a distance of the model is a whole number of
\* metres, so finite; NaN and null never come to be stored as one).
C26_EntriesValid ==
  \A e \in distanceCache :
    /\ e.distanceKm \in Nat
    /\ e.distanceKm > 0
    /\ e.expires <= now + DayMs

\* an entry written by an invocation that began before the clock moved, so
\* that its expiry is strictly less than 24 hours away
C26_Witness ==
  \E e \in distanceCache, s \in Slots :
    /\ inv[s].pc = "done" /\ inv[s].wrote
    /\ e.key = KeyOf(inv[s].req)
    /\ e.expires = inv[s].now0 + DayMs
    /\ inv[s].now0 < now
    /\ e.distanceKm > 0

\* a resolution that came to nothing (null payloads, no fallback) wrote no entry
C26_NothingStoredWitness ==
  \E s \in Slots :
    /\ inv[s].pc = "done"
    /\ inv[s].calls > 0
    /\ ~inv[s].resolved.found
    /\ ~CacheHas(KeyOf(inv[s].req))

\* ------------------------------------------------------------------------
\* C27
\* ------------------------------------------------------------------------
\* the request as merged at lines 182-200, before any distance is filled in
MergedRequest(dto) == Started(dto, 0).req

\* not a ground request, or ground with a finite distance above zero, or
\* origin and destination the same place
ResolvesNothing(req) ==
  \/ req.mode # "ground"
  \/ FinitePositive(req.distanceKm)
  \/ SameLocation(req)

\* C27: an estimate for a non-ground mode, for a ground request with a valid
\* explicit distanceKm, or for a request rejected as same-location returns
\* without an await, leaves the distance cache as it was (an expired entry of
\* its key included) and makes no provider call.
C27_NoCacheNoCalls ==
  [][\A s \in Slots :
       (inv[s].pc = "idle" /\ inv'[s].pc # "idle"
          /\ ResolvesNothing(MergedRequest(inv'[s].dto)))
       => /\ distanceCache' = distanceCache
          /\ inv'[s].pc = "done"
          /\ inv'[s].calls = 0
          /\ inv'[s].lookup = "none"
          /\ ~inv'[s].wrote]_vars

\* a ground request carrying its own distance, answered ok while the entry of
\* its key has expired and stays in the cache
C27_Witness ==
  \E s \in Returned :
    /\ env.liqKey
    /\ inv[s].dto = GroundDto("Lagos", "Kano", 1000 * 1000, NoLatLng, NoLatLng)
    /\ inv[s].resp.status = "ok"
    /\ inv[s].calls = 0
    /\ CacheHas(KeyOf(inv[s].req))
    /\ CacheGet(KeyOf(inv[s].req)).expires <= inv[s].now0

\* a parcel request answered while the cache holds an entry of its key
C27_ParcelWitness ==
  \E s \in Returned :
    /\ env.liqKey
    /\ inv[s].req.mode = "parcel"
    /\ inv[s].resp.status = "ok"
    /\ inv[s].calls = 0
    /\ CacheHas(KeyOf(inv[s].req))

\* a ground request for one place twice, rejected
C27_SameLocationWitness ==
  \E s \in Returned :
    /\ env.liqKey
    /\ inv[s].req.mode = "ground"
    /\ ~FinitePositive(inv[s].req.distanceKm)
    /\ inv[s].resp = SameLocationError
    /\ inv[s].calls = 0
    /\ distanceCache # {}

\* ------------------------------------------------------------------------
\* C28
\* ------------------------------------------------------------------------
\* C28 as stated: an invocation that returns needs_clarification has added or
\* updated no cache entry, and every cache entry's key has a non-empty origin
\* part and a non-empty destination part.
C28_ClarificationWritesNothing ==
  /\ \A s \in Returned : inv[s].resp.status = "needs_clarification" => ~inv[s].wrote
  /\ \A e \in distanceCache : e.key[1] # "" /\ e.key[2] # ""

\* a ground request without origin but with start and end coordinates has
\* returned needs_clarification for the origin after storing the distance
\* between its coordinates under a key whose origin part is empty
C28_Divergence ==
  \E s \in Returned :
    /\ inv[s].dto = GroundDto(Undef, "Kano", NoNum, LagosLL, KanoLL)
    /\ inv[s].resp.status = "needs_clarification"
    /\ inv[s].resp.missingFields = <<"origin">>
    /\ inv[s].wrote
    /\ CacheHas(<<"", "kano">>)
    /\ CacheGet(<<"", "kano">>).distanceKm > 0

\* what does hold: an invocation that finds distanceKm missing has written
\* no entry, and a request without coordinates of its own that returns
\* needs_clarification has written none either
C28_UnresolvedWritesNothing ==
  \A s \in Returned :
    /\ inv[s].resp.status = "needs_clarification"
    /\ \/ Has(inv[s].resp.missingFields, "distanceKm")
       \/ ~inv[s].dto.start.ok /\ ~inv[s].dto.end.ok
    => ~inv[s].wrote

\* ------------------------------------------------------------------------
\* C29
\* ------------------------------------------------------------------------
\* the tier of a distance in metres (lines 583-586)
TierOf(m) ==
  IF m <= 100 * 1000 THEN 1 ELSE IF m <= 300 * 1000 THEN 2
  ELSE IF m <= 600 * 1000 THEN 3 ELSE 4

\* the response to the request of invocation c with distanceKm m instead
AtDistance(c, m) == Uncached([c.dto EXCEPT !.distanceKm = m]).resp

InterCityQuotes ==
  {s \in Returned : inv[s].resp.status = "ok" /\ inv[s].req.mode = "ground"
                      /\ ~SameCity(inv[s].req)}

NotLower(a, b) ==
  /\ a.quote.breakdown.base >= b.quote.breakdown.base
  /\ a.quote.breakdown.total >= b.quote.breakdown.total

\* C29 as stated: of two inter-city ground requests that differ in distance
\* only, the one with the longer distance has no lower base and no lower total.
C29_AsStated ==
  \A s \in InterCityQuotes : \A m \in InterCityMetres :
    m > inv[s].req.distanceKm => NotLower(AtDistance(inv[s], m), inv[s].resp)

\* C29 amended: the same, for two distances of one tier (up to 100 km, above
\* 100 up to 300, above 300 up to 600, above 600 km); one metre above a tier
\* limit the base and the total are lower than at the limit.
C29_MonotoneWithinTier ==
  \A s \in InterCityQuotes :
    /\ \A m \in InterCityMetres :
          m > inv[s].req.distanceKm /\ TierOf(m) = TierOf(inv[s].req.distanceKm)
            => NotLower(AtDistance(inv[s], m), inv[s].resp)
    /\ inv[s].req.distanceKm \in {100 * 1000, 300 * 1000, 600 * 1000}
          => /\ ~NotLower(AtDistance(inv[s], inv[s].req.distanceKm + 1), inv[s].resp)
             /\ AtDistance(inv[s], inv[s].req.distanceKm + 1).quote.breakdown.base
                   < inv[s].resp.quote.breakdown.base

\* 100 km quoted at 350 per km while 100.001 km at 300 per km comes cheaper
C29_Witness ==
  \E s \in InterCityQuotes :
    /\ inv[s].dto = GroundDto("Lagos", "Abuja", 100 * 1000, NoLatLng, NoLatLng)
    /\ inv[s].resp.quote.breakdown.base = GroundBase(100 * 1000, 350)
    /\ AtDistance(inv[s], 100 * 1000 + 1).quote.breakdown.base
          = GroundBase(100 * 1000 + 1, 300)
    /\ GroundBase(100 * 1000 + 1, 300) < GroundBase(100 * 1000, 350)
    /\ AtDistance(inv[s], 50 * 1000).quote.breakdown.total
          < inv[s].resp.quote.breakdown.total

\* ------------------------------------------------------------------------
\* C30
\* ------------------------------------------------------------------------
Commits(k) == assigns[k].pc = "transaction" /\ assigns'[k].pc = "done"

\* C30 as stated: under any interleaving of assignDriver calls a shipment's
\* driverId, once set, is never overwritten; a driver is assigned only if
\* APPROVED and AVAILABLE when the assignment commits, and is BUSY after it;
\* no driver comes to be assigned to two shipments.
C30_AssignedOnce ==
  /\ [][\A r \in ShipmentRows :
          shipmentDriverId[r] # Null => shipmentDriverId'[r] = shipmentDriverId[r]]_vars
  /\ [][\A k \in CallSlots :
          Commits(k) =>
            /\ driver[assigns[k].driverId] = DriverRow("APPROVED", "AVAILABLE")
            /\ driver'[assigns[k].driverId].status = "BUSY"]_vars
  /\ [](\A r1 \in ShipmentRows, r2 \in ShipmentRows :
          r1 # r2 /\ shipmentDriverId[r1] # Null
            => shipmentDriverId[r1] # shipmentDriverId[r2])

\* two calls for one shipment have both returned the shipment: the driver of
\* the first commit is overwritten by the second, and both drivers are BUSY
C30_Divergence ==
  /\ assigns["k1"] = [pc |-> "done", shipmentId |-> "sh1", driverId |-> "d1",
                      outcome |-> "ok"]
  /\ assigns["k2"] = [pc |-> "done", shipmentId |-> "sh1", driverId |-> "d2",
                      outcome |-> "ok"]
  /\ shipmentDriverId["sh1"] = "d1"
  /\ driver["d1"].status = "BUSY" /\ driver["d2"].status = "BUSY"

\* two calls have assigned one AVAILABLE driver to two shipments
C30_TwoShipmentsDivergence ==
  /\ \A k \in CallSlots : assigns[k].pc = "done" /\ assigns[k].outcome = "ok"
  /\ shipmentDriverId["sh1"] = "d1" /\ shipmentDriverId["sh2"] = "d1"

\* what does hold: a call commits only after it has read the shipment without
\* a driver and the driver as APPROVED and AVAILABLE, and a call that reads a
\* shipment with a driver fails with 'Shipment already assigned'
C30_ChecksAtRead ==
  [][\A k \in CallSlots :
       /\ assigns[k].pc = "findShipment" /\ assigns[k].shipmentId \in ShipmentRows
             /\ shipmentDriverId[assigns[k].shipmentId] # Null
           => assigns'[k].outcome = "Shipment already assigned"
                \/ assigns'[k] = assigns[k]
       /\ assigns[k].pc = "findDriver" /\ assigns'[k].pc = "transaction"
           => driver[assigns[k].driverId] = DriverRow("APPROVED", "AVAILABLE")]_vars

====
